---- MODULE Spec2Model ----
(***************************************************************************)
(* Merge orchestration of cudf (python/cudf/cudf/core/join/join.py):       *)
(* merge() constructs a Merge / MergeSemi object (parameter validation and *)
(* key resolution) and runs perform_merge() (key dtype matching, the       *)
(* native row selector, categorical restoration, the two gathers, result   *)
(* assembly and the optional sort).  Every step of that pipeline is one    *)
(* action, so that the order of the steps is visible in a behaviour.       *)
(*                                                                         *)
(* Python values are represented as follows.                               *)
(*   - a str is a sequence of one-character strings ("id" is <<"i","d">>), *)
(*     so that concatenation (f-strings), substring tests (str `in` str)   *)
(*     and str.index are computed rather than assumed;                     *)
(*   - None, where a str is otherwise expected (a suffix, a column or      *)
(*     index level name), is the one-element sequence PyNone, whose only   *)
(*     element is not a character;                                         *)
(*   - the on / left_on / right_on arguments, which may be None, a str or  *)
(*     a list of str, are tagged records built by ArgNone, ArgStr, ArgList;*)
(*   - a column is [name, dtype, vals], a Frame is [kind, ref, cols,       *)
(*     index], where cols and index are sequences of columns (index <<>>   *)
(*     is "no index"), kind is the class of the object and ref its         *)
(*     identity: two frames of the same ref are one Python object, and an  *)
(*     item assignment through one is seen through the other;              *)
(*   - a null cell is Null, a "no match" entry of a row selection is       *)
(*     NoMatch (an out-of-range row position).                             *)
(***************************************************************************)
EXTENDS Integers, Sequences, FiniteSets, TLC

\* Number of rows of each input table.
MaxRows == 2

\* ------------------------------------------------------------------------
\* Python values

PyNone == <<"None">>

\* str(v) as used by an f-string: None prints as the four characters "None".
PyStr(v) == IF v = PyNone THEN <<"N", "o", "n", "e">> ELSE v

\* Truth value of a str-or-None value: None and "" are false.
StrTruthy(v) == v # PyNone /\ v # <<>>

ArgNone == [t |-> "None", s |-> <<>>, l |-> <<>>]
ArgStr(s) == [t |-> "str", s |-> s, l |-> <<>>]
ArgList(l) == [t |-> "list", s |-> <<>>, l |-> l]

\* Truth value of an on / left_on / right_on argument.
ArgTruthy(a) ==
    CASE a.t = "None" -> FALSE
      [] a.t = "str" -> a.s # <<>>
      [] OTHER -> a.l # <<>>

\* name == a, for a str name: only a str argument can be equal to it.
ArgEqName(a, name) == a.t = "str" /\ a.s = name

\* Positions at which the str sub occurs in the str s.
SubstrPositions(s, sub) ==
    {p \in 1..(Len(s) - Len(sub) + 1) : SubSeq(s, p, p + Len(sub) - 1) = sub}

\* name in a: substring test on a str, membership test on a list.
\* (Never evaluated on None in the code.)
ArgContains(a, name) ==
    CASE a.t = "str" -> SubstrPositions(a.s, name) # {}
      [] a.t = "list" -> \E i \in 1..Len(a.l) : a.l[i] = name
      [] OTHER -> FALSE

Min(S) == CHOOSE m \in S : \A n \in S : m <= n

\* a.index(name): first position of the substring / of the element.
\* Only evaluated where ArgContains(a, name) holds.
ArgIndex(a, name) ==
    IF a.t = "str"
    THEN Min(SubstrPositions(a.s, name))
    ELSE Min({i \in 1..Len(a.l) : a.l[i] = name})

\* _coerce_to_tuple / _coerce_to_list: a str becomes a one-element sequence,
\* a list is taken as it is.
_coerce_to_tuple(a) == IF a.t = "str" THEN <<a.s>> ELSE a.l

_coerce_to_list(a) == _coerce_to_tuple(a)

\* ------------------------------------------------------------------------
\* Frames

Null == -1

NoMatch == 0

Col(name, dtype, vals) == [name |-> name, dtype |-> dtype, vals |-> vals]

Names(cols) == [i \in 1..Len(cols) |-> cols[i].name]

NameSet(cols) == {cols[i].name : i \in 1..Len(cols)}

HasCol(cols, name) == \E i \in 1..Len(cols) : cols[i].name = name

\* obj._data[name] for a name that is present.
GetCol(cols, name) == cols[CHOOSE i \in 1..Len(cols) : cols[i].name = name]

PosOf(cols, name) == CHOOSE i \in 1..Len(cols) : cols[i].name = name

\* ColumnAccessor item assignment: an existing label keeps its position and
\* gets the new column, a new label is appended.
SetCol(cols, name, c) ==
    IF HasCol(cols, name)
    THEN [i \in 1..Len(cols) |->
            IF cols[i].name = name THEN Col(name, c.dtype, c.vals) ELSE cols[i]]
    ELSE Append(cols, Col(name, c.dtype, c.vals))

\* cudf.core.frame.Frame(): a new object with no columns and no index.
EmptyFrame == [kind |-> "Frame", ref |-> <<"Frame()">>, cols |-> <<>>, index |-> <<>>]

\* Frame.copy(deep=False): a new object holding the same columns and index
\* levels; an item assignment on the copy leaves the original as it was.
copy(f, name) == [f EXCEPT !.ref = <<name>> \o f.ref]

\* The object obj after a step that assigned items of the frames in
\* `written`: the written frame if it is the same object, else obj itself.
Stored(obj, written) ==
    IF \E w \in written : w.ref = obj.ref
    THEN CHOOSE w \in written : w.ref = obj.ref
    ELSE obj

NumRows(f) ==
    IF f.cols # <<>> THEN Len(f.cols[1].vals)
    ELSE IF f.index # <<>> THEN Len(f.index[1].vals)
    ELSE 0

GatherVals(vals, rows) ==
    [r \in 1..Len(rows) |->
        IF rows[r] \in 1..Len(vals) THEN vals[rows[r]] ELSE Null]

GatherCols(cols, rows) ==
    [i \in 1..Len(cols) |->
        Col(cols[i].name, cols[i].dtype, GatherVals(cols[i].vals, rows))]

\* Frame._gather(rows, nullify=True, keep_index=...): out-of-range positions
\* give null rows; the index is gathered too unless keep_index is False.
\* The result is a new object.
_gather(f, rows, keep_index) ==
    [kind |-> f.kind,
     ref |-> <<"_gather">> \o f.ref,
     cols |-> GatherCols(f.cols, rows),
     index |-> IF keep_index THEN GatherCols(f.index, rows) ELSE <<>>]

\* ------------------------------------------------------------------------
\* Inputs of merge(): the operands and the keyword arguments

Name_id == <<"i", "d">>
Name_d == <<"d">>
Name_x == <<"x">>
Name_v == <<"v">>
Name_w == <<"w">>
Name_a == <<"a">>
Name_b == <<"b">>
Name_k == <<"k">>
Name_j == <<"j">>
Name_x_l == <<"x", "_", "l">>
Suffix_l == <<"_", "l">>
Suffix_r == <<"_", "r">>

\* Values of the left operand's column `name`, row by row: the key-like
\* columns id, a, d hold small numbers that can match the right operand,
\* the others hold values that occur nowhere else.
LeftVals(name) ==
    [r \in 1..MaxRows |->
        CASE name \in {Name_id, Name_a, Name_k} -> r
          [] name \in {Name_d, Name_j} -> 1
          [] name = Name_x -> 10 + r
          [] OTHER -> 30 + r]

\* Values of the right operand's column `name`; `dup` makes every key of
\* the right operand equal (several right rows match one left row).
RightVals(name, dup) ==
    [r \in 1..MaxRows |->
        CASE name \in {Name_id, Name_b, Name_k} -> IF dup THEN 2 ELSE r + 1
          [] name \in {Name_d, Name_j} -> r
          [] name = Name_x -> 20 + r
          [] OTHER -> 40 + r]

\* The key columns a and b are categorical, every other column is int64.
DtypeOf(name) == IF name \in {Name_a, Name_b} THEN "category" ELSE "int64"

\* An unnamed one-level index holding 1..MaxRows.
DefaultIndex == <<Col(PyNone, "int64", [r \in 1..MaxRows |-> r])>>

\* isinstance(f, cudf.Index): the plain Index classes, and MultiIndex, which
\* is a subclass of Index.
IsIndex(f) == f.kind \in {"Int64Index", "MultiIndex"}

\* An Index or MultiIndex holds its levels as its data columns and has no
\* index of its own; a DataFrame or Series has the default index.
IndexOf(kind) == IF kind \in {"Int64Index", "MultiIndex"} THEN <<>> ELSE DefaultIndex

LeftFrame(kind, names) ==
    [kind |-> kind,
     ref |-> <<"lhs">>,
     cols |-> [i \in 1..Len(names) |-> Col(names[i], DtypeOf(names[i]), LeftVals(names[i]))],
     index |-> IndexOf(kind)]

RightFrame(kind, names, dup) ==
    [kind |-> kind,
     ref |-> <<"rhs">>,
     cols |-> [i \in 1..Len(names) |->
                Col(names[i], DtypeOf(names[i]), RightVals(names[i], dup))],
     index |-> IndexOf(kind)]

\* A named index: one level per name, holding the operand's values of
\* that name.
LeftLevels(names) ==
    [i \in 1..Len(names) |-> Col(names[i], "int64", LeftVals(names[i]))]

RightLevels(names, dup) ==
    [i \in 1..Len(names) |-> Col(names[i], "int64", RightVals(names[i], dup))]

\* The operand pairs: <<class of lhs, column names of lhs, class of rhs,
\* column names of rhs, names of the index levels of both>>, where no name
\* stands for the default index.
OperandShapes ==
    { <<"DataFrame", <<Name_id, Name_v>>, "DataFrame", <<Name_id, Name_w>>, <<>>>>,
      <<"DataFrame", <<Name_id, Name_x>>, "DataFrame", <<Name_id, Name_x>>, <<>>>>,
      <<"DataFrame", <<Name_x, Name_id, Name_v>>, "DataFrame", <<Name_w, Name_id, Name_x>>, <<>>>>,
      <<"DataFrame", <<Name_id, Name_d>>, "DataFrame", <<Name_id, Name_d>>, <<>>>>,
      <<"DataFrame", <<Name_a, Name_v>>, "DataFrame", <<Name_b, Name_w>>, <<>>>>,
      <<"Series", <<PyNone>>, "DataFrame", <<Name_id, Name_w>>, <<>>>>,
      <<"DataFrame", <<Name_id, Name_x, Name_x_l>>, "DataFrame", <<Name_id, Name_x>>, <<>>>>,
      <<"DataFrame", <<Name_id, Name_v>>, "DataFrame", <<Name_id, Name_w>>, <<Name_k, Name_j>>>>,
      <<"Int64Index", <<Name_id>>, "Int64Index", <<Name_id>>, <<>>>>,
      <<"Int64Index", <<Name_id>>, "MultiIndex", <<Name_id, Name_d>>, <<>>>>,
      <<"MultiIndex", <<Name_id, Name_d>>, "DataFrame", <<Name_id, Name_d>>, <<>>>>,
      <<"DataFrame", <<Name_id, Name_v>>, "MultiIndex", <<Name_id, Name_d>>, <<>>>>,
      <<"DataFrame", <<Name_id, Name_v>>, "Int64Index", <<Name_id>>, <<>>>> }

\* Whether one operand of the shape is an Index or a MultiIndex.
IndexShape(shape) ==
    {shape[1], shape[3]} \cap {"Int64Index", "MultiIndex"} # {}

OnValues == {ArgNone, ArgStr(Name_id), ArgList(<<Name_id>>),
             ArgList(<<Name_id, Name_d>>), ArgList(<<>>)}

LeftOnValues == {ArgNone, ArgStr(Name_id), ArgList(<<Name_id>>),
                 ArgList(<<Name_a>>), ArgList(<<>>)}

RightOnValues == {ArgNone, ArgStr(Name_id), ArgList(<<Name_id>>),
                  ArgList(<<Name_b>>), ArgList(<<Name_id, Name_d>>)}

\* on together with left_on, with right_on, and with both.
AmbiguousKeyArgs ==
    {ArgStr(Name_id), ArgList(<<Name_id>>), ArgList(<<Name_id, Name_d>>)}
    \X {<<ArgStr(Name_id), ArgNone>>, <<ArgNone, ArgList(<<Name_b>>)>>,
        <<ArgList(<<Name_id>>), ArgStr(Name_id)>>}

\* The <<on, left_on, right_on>> triples of the calls: on alone, left_on and
\* right_on without on, on together with them, and an empty list together
\* with a key argument.
KeyArgs ==
    {<<o, ArgNone, ArgNone>> : o \in OnValues}
    \cup ({ArgNone} \X LeftOnValues \X RightOnValues)
    \cup {<<k[1], k[2][1], k[2][2]>> : k \in AmbiguousKeyArgs}
    \cup {<<ArgList(<<>>), ArgStr(Name_id), ArgStr(Name_id)>>,
          <<ArgStr(Name_id), ArgList(<<>>), ArgNone>>}

HowValues == {"inner", "left", "outer", "leftsemi", "leftanti", "right", "cross"}

LSuffixValues == {PyNone, Suffix_l}

RSuffixValues == {PyNone, Suffix_r}

\* suffixes=None is <<>>, otherwise the pair <<left suffix, right suffix>>.
SuffixesValues == {<<>>, <<Suffix_l, Suffix_r>>}

\* ------------------------------------------------------------------------
\* Errors

NoError == "none"
ErrHow == "NotImplementedError: merge not supported yet"
ErrAmbiguous == "ValueError: Can only pass argument on OR left_on and right_on"
ErrUnnamed == "ValueError: Can not merge on unnamed Series"
ErrNoCommon == "ValueError: No common columns to perform merge on"
ErrOverlap == "ValueError: there are overlapping columns but lsuffix and rsuffix are not defined"
ErrKeyCount == "ValueError: Merge operands must have same number of join key columns"
ErrKeyError == "KeyError"
ErrEngine == "RuntimeError: native join"

\* ------------------------------------------------------------------------
\* State

VARIABLES
    pc,            \* position of the merge() call
    lhs, rhs,      \* the operands (self.lhs, self.rhs)
    on, left_on, right_on, left_index, right_index,
    how, sort, lsuffix, rsuffix, suffixes,   \* the keyword arguments
    dup,           \* the data of rhs: whether its keys are all equal
    merge_cls,     \* "Merge" or "MergeSemi"
    _keys,         \* self._keys: [left, right], two lists of _Indexer
    pm_lhs, pm_rhs,            \* the locals lhs, rhs of perform_merge
    selector_calls,            \* the arguments of every call of _joiner
    left_rows, right_rows,     \* the row selection returned by _joiner
    left_result, right_result, \* the gathered frames
    assembled,     \* what _merge_results returned
    result,        \* what perform_merge returns
    error,         \* the exception raised, NoError if none
    trace,         \* the steps taken so far, in order
    \* _filter_stripes of io/orc.py
    orc_pc,        \* position of the _filter_stripes() call
    filters, joins, stripes, skip_rows, num_rows,   \* its arguments
    file_passes,   \* whether the file-level statistics pass the filters
    stripe_rows,   \* number_of_values of every stripe of the file
    stripe_passes, \* the stripes whose statistics pass the filters
    join_passes,   \* the stripes whose min-max range passes some join
    loop_i,        \* the loop variable i
    num_rows_scanned,
    local_skip_rows,                \* the local name skip_rows during the loop
    selected_stripes_from_filters,
    selected_stripes,               \* what _filter_stripes returned
    \* Scalar of core/scalar.py
    scalar_pc,     \* position of the operator call
    self, other_operand,   \* the operands self and other
    op,            \* the special method called on self
    returned       \* what the method returned or raised

merge_vars == <<pc, lhs, rhs, on, left_on, right_on, left_index, right_index, how, sort, lsuffix, rsuffix, suffixes, dup, merge_cls, _keys, pm_lhs, pm_rhs, selector_calls, left_rows, right_rows, left_result, right_result, assembled, result, error, trace>>

orc_vars == <<orc_pc, filters, joins, stripes, skip_rows, num_rows, file_passes, stripe_rows, stripe_passes, join_passes, loop_i, num_rows_scanned, local_skip_rows, selected_stripes_from_filters, selected_stripes>>

scalar_vars == <<scalar_pc, self, other_operand, op, returned>>

vars == <<merge_vars, orc_vars, scalar_vars>>

\* An optional integer argument: NoValue is None, Value(n) the integer n.
NoValue == <<>>

Value(n) == <<n>>

\* No call of _filter_stripes has been made.
OrcIdle ==
    /\ orc_pc = "idle"
    /\ filters = FALSE /\ joins = FALSE
    /\ stripes = NoValue /\ skip_rows = NoValue /\ num_rows = NoValue
    /\ file_passes = TRUE
    /\ stripe_rows = <<>>
    /\ stripe_passes = {} /\ join_passes = {}
    /\ loop_i = 0 /\ num_rows_scanned = 0
    /\ local_skip_rows = NoValue
    /\ selected_stripes_from_filters = {}
    /\ selected_stripes = {}

\* The place of an operand or of a returned value that is not there.
Nothing == [kind |-> "nothing", value |-> 0, dtype |-> "none", valid |-> FALSE]

\* No Scalar operator has been called.
ScalarIdle ==
    /\ scalar_pc = "idle"
    /\ self = Nothing /\ other_operand = Nothing
    /\ op = "none"
    /\ returned = Nothing

\* The keyword arguments, and with them the two operands.
params == <<on, left_on, right_on, left_index, right_index, how, sort, lsuffix, rsuffix, suffixes, dup, merge_cls>>

args == <<lhs, rhs, params>>

\* ------------------------------------------------------------------------
\* Merge._validate_merge_params, on the arguments Merge.__init__ hands it

\* isinstance(f, cudf.Series) and not f.name
UnnamedSeries(f) == f.kind = "Series" /\ ~StrTruthy(f.cols[1].name)

\* One iteration of the loop over same_named_columns: "continue" for the
\* two continue statements, "pass" where the elif branch is taken and its
\* inner test fails or where a suffix is defined, "raise" for the else
\* branch without any suffix.  l and r are the local lsuffix and rsuffix.
ValidateName(name, l, r) ==
    IF ArgEqName(left_on, name) /\ ArgEqName(right_on, name)
    THEN "continue"
    ELSE IF ArgTruthy(left_on) /\ ArgTruthy(right_on)
    THEN IF /\ ArgContains(left_on, name)
            /\ ArgContains(right_on, name)
            /\ ArgIndex(left_on, name) = ArgIndex(right_on, name)
         THEN "continue"
         ELSE "pass"
    ELSE IF ~(StrTruthy(l) \/ StrTruthy(r))
    THEN "raise"
    ELSE "pass"

\* on with only one of left_on and right_on passing as unambiguous.
AmbiguousKeys_BothNeeded ==
    ArgTruthy(on) /\ (ArgTruthy(left_on) /\ ArgTruthy(right_on))

\* `if on and (left_on or right_on):`
AmbiguousKeys ==
    ArgTruthy(on) /\ (ArgTruthy(left_on) \/ ArgTruthy(right_on))

\* _validate_merge_params with "right" among the supported kinds.
_validate_merge_params_RightSupported ==
    LET same_named_columns == NameSet(lhs.cols) \cap NameSet(rhs.cols)
        l == IF suffixes # <<>> THEN suffixes[1] ELSE lsuffix
        r == IF suffixes # <<>> THEN suffixes[2] ELSE rsuffix
    IN  IF how \notin {"left", "right", "inner", "outer", "leftanti", "leftsemi"}
        THEN ErrHow
        ELSE IF AmbiguousKeys
        THEN ErrAmbiguous
        ELSE IF UnnamedSeries(lhs) \/ UnnamedSeries(rhs)
        THEN ErrUnnamed
        ELSE IF /\ ~(left_index \/ right_index)
                /\ ~(ArgTruthy(left_on) \/ ArgTruthy(right_on))
                /\ same_named_columns = {}
        THEN ErrNoCommon
        ELSE IF \E name \in same_named_columns : ValidateName(name, l, r) = "raise"
        THEN ErrOverlap
        ELSE NoError

\* The error raised by the validation, NoError if it returns.
_validate_merge_params ==
    LET same_named_columns == NameSet(lhs.cols) \cap NameSet(rhs.cols)
        l == IF suffixes # <<>> THEN suffixes[1] ELSE lsuffix
        r == IF suffixes # <<>> THEN suffixes[2] ELSE rsuffix
    IN  IF how \notin {"left", "inner", "outer", "leftanti", "leftsemi"}
        THEN ErrHow
        ELSE IF AmbiguousKeys
        THEN ErrAmbiguous
        ELSE IF UnnamedSeries(lhs) \/ UnnamedSeries(rhs)
        THEN ErrUnnamed
        ELSE IF /\ ~(left_index \/ right_index)
                /\ ~(ArgTruthy(left_on) \/ ArgTruthy(right_on))
                /\ same_named_columns = {}
        THEN ErrNoCommon
        ELSE IF \E name \in same_named_columns : ValidateName(name, l, r) = "raise"
        THEN ErrOverlap
        ELSE NoError

\* ------------------------------------------------------------------------
\* Merge._compute_join_keys

\* _Indexer(name=name, index=True) / _Indexer(name=name, column=True)
_Indexer(name, index) == [name |-> name, index |-> index]

\* IndexKeys taking the index levels from the last to the first.
IndexKeys_Reversed(f) ==
    [i \in 1..Len(f.index) |-> _Indexer(f.index[Len(f.index) + 1 - i].name, TRUE)]

\* One index key per level of f.index.names, in level order.
IndexKeys(f) == [i \in 1..Len(f.index) |-> _Indexer(f.index[i].name, TRUE)]

ColumnKeys(names) == [i \in 1..Len(names) |-> _Indexer(names[i], FALSE)]

\* CommonNames without the intersection: every column name of lhs.
CommonNames_LeftOnly == Names(lhs.cols)

\* set(self.lhs._data) & set(self.rhs._data) as a sequence; the order in
\* which the set is iterated is the same for both key lists, here the
\* order of lhs.
CommonNames == SelectSeq(Names(lhs.cols), LAMBDA n : n \in NameSet(rhs.cols))

\* The length check left out: any two key lists are accepted.
KeyCountError_Never(left_keys, right_keys) == NoError

\* `if len(left_keys) != len(right_keys): raise ValueError(...)`
KeyCountError(left_keys, right_keys) ==
    IF Len(left_keys) # Len(right_keys) THEN ErrKeyCount ELSE NoError

\* The key lists, and the error raised if their lengths differ.
_compute_join_keys ==
    LET explicit == \/ left_index \/ right_index
                    \/ ArgTruthy(left_on) \/ ArgTruthy(right_on)
        on_names == IF on.t # "None" THEN _coerce_to_tuple(on) ELSE CommonNames
        left_keys ==
            IF explicit
            THEN (IF left_index THEN IndexKeys(lhs) ELSE <<>>)
                 \o (IF ArgTruthy(left_on)
                     THEN ColumnKeys(_coerce_to_tuple(left_on)) ELSE <<>>)
            ELSE ColumnKeys(on_names)
        right_keys ==
            IF explicit
            THEN (IF right_index THEN IndexKeys(rhs) ELSE <<>>)
                 \o (IF ArgTruthy(right_on)
                     THEN ColumnKeys(_coerce_to_tuple(right_on)) ELSE <<>>)
            ELSE ColumnKeys(on_names)
    IN  [err |-> KeyCountError(left_keys, right_keys),
         left |-> left_keys,
         right |-> right_keys]

\* ------------------------------------------------------------------------
\* _Indexer: access to a key column of a Frame

\* Whether the key's column exists in f (get raises KeyError otherwise).
KeyPresent(key, f) ==
    HasCol(IF key.index THEN f.index ELSE f.cols, key.name)

\* _Indexer.get
KeyGet(key, f) == GetCol(IF key.index THEN f.index ELSE f.cols, key.name)

\* _Indexer.set
KeySet(key, f, c) ==
    IF key.index
    THEN [f EXCEPT !.index = SetCol(f.index, key.name, c)]
    ELSE [f EXCEPT !.cols = SetCol(f.cols, key.name, c)]

\* The columns of a Frame as the native engine sees them: index levels
\* first, then the data columns.
FlatCols(f) == f.index \o f.cols

\* _Indexer.get_numeric_index: position in FlatCols.
get_numeric_index(key, f) ==
    IF key.index
    THEN PosOf(f.index, key.name)
    ELSE Len(f.index) + PosOf(f.cols, key.name)

astype(c, dtype) == Col(c.name, dtype, c.vals)

\* ------------------------------------------------------------------------
\* Merge._match_key_dtypes, called on self.lhs and self.rhs

\* _match_join_keys: the common dtype of a key pair.  Two categorical keys
\* are compared on their categories' dtype in an inner join and stay
\* categorical otherwise; a categorical key joined with a plain one is
\* compared on the plain dtype; equal dtypes are kept.
_match_join_keys(lcol, rcol) ==
    IF lcol.dtype = "category" /\ rcol.dtype = "category"
    THEN IF how = "inner" THEN "int64" ELSE "category"
    ELSE IF lcol.dtype = "category" THEN rcol.dtype
    ELSE lcol.dtype

RECURSIVE MatchFrom(_, _, _)
MatchFrom(i, out_lhs, out_rhs) ==
    IF i > Len(_keys.left)
    THEN [lhs |-> out_lhs, rhs |-> out_rhs]
    ELSE LET left_key == _keys.left[i]
             right_key == _keys.right[i]
             lcol == KeyGet(left_key, lhs)
             rcol == KeyGet(right_key, rhs)
             dtype == _match_join_keys(lcol, rcol)
         IN  MatchFrom(i + 1,
                       KeySet(left_key, out_lhs, astype(lcol, dtype)),
                       KeySet(right_key, out_rhs, astype(rcol, dtype)))

\* _match_key_dtypes casting the key columns of lhs and rhs themselves, not
\* of copies.
_match_key_dtypes_InPlace ==
    IF \E i \in 1..Len(_keys.left) :
            ~KeyPresent(_keys.left[i], lhs) \/ ~KeyPresent(_keys.right[i], rhs)
    THEN [err |-> ErrKeyError, lhs |-> lhs, rhs |-> rhs]
    ELSE LET m == MatchFrom(1, lhs, rhs)
         IN  [err |-> NoError, lhs |-> m.lhs, rhs |-> m.rhs]

\* KeyError if the column of some key does not exist, else the copies of
\* lhs and rhs with every key pair cast to its common dtype.
_match_key_dtypes ==
    IF \E i \in 1..Len(_keys.left) :
            ~KeyPresent(_keys.left[i], lhs) \/ ~KeyPresent(_keys.right[i], rhs)
    THEN [err |-> ErrKeyError, lhs |-> lhs, rhs |-> rhs]
    ELSE LET m == MatchFrom(1, copy(lhs, "out_lhs"), copy(rhs, "out_rhs"))
         IN  [err |-> NoError, lhs |-> m.lhs, rhs |-> m.rhs]

\* ------------------------------------------------------------------------
\* The native row selector (libcudf.join.join / libcudf.join.semi_join)

KeyTuple(f, idxs, r) == [p \in 1..Len(idxs) |-> FlatCols(f)[idxs[p]].vals[r]]

RowIds(f) == [r \in 1..NumRows(f) |-> r]

\* The right rows whose key equals the key of left row i, in row order.
MatchesOf(i, l, r, left_on_idx, right_on_idx) ==
    SelectSeq(RowIds(r),
              LAMBDA j : KeyTuple(l, left_on_idx, i) = KeyTuple(r, right_on_idx, j))

\* The <<left row, right row>> pairs contributed by left row i.
PairsOf(i, l, r, left_on_idx, right_on_idx, p_how) ==
    LET m == MatchesOf(i, l, r, left_on_idx, right_on_idx)
    IN  CASE p_how = "inner" -> [n \in 1..Len(m) |-> <<i, m[n]>>]
          [] p_how \in {"left", "outer"} ->
                IF m = <<>> THEN <<<<i, NoMatch>>>>
                ELSE [n \in 1..Len(m) |-> <<i, m[n]>>]
          [] p_how = "leftsemi" ->
                IF m = <<>> THEN <<>> ELSE <<<<i, NoMatch>>>>
          [] OTHER ->
                IF m = <<>> THEN <<<<i, NoMatch>>>> ELSE <<>>

RECURSIVE LeftPairs(_, _, _, _, _, _)
LeftPairs(i, l, r, left_on_idx, right_on_idx, p_how) ==
    IF i > NumRows(l) THEN <<>>
    ELSE PairsOf(i, l, r, left_on_idx, right_on_idx, p_how)
         \o LeftPairs(i + 1, l, r, left_on_idx, right_on_idx, p_how)

\* The right rows that match no left row (kept by an outer join).
UnmatchedRight(l, r, left_on_idx, right_on_idx) ==
    LET un == SelectSeq(RowIds(r),
                 LAMBDA j : \A i \in 1..NumRows(l) :
                     KeyTuple(l, left_on_idx, i) # KeyTuple(r, right_on_idx, j))
    IN  [n \in 1..Len(un) |-> <<NoMatch, un[n]>>]

Reverse(s) == [i \in 1..Len(s) |-> s[Len(s) + 1 - i]]

\* The engine does not promise an order of the selected rows.
JoinOrders == {"forward", "reverse"}

\* The row selection as a sequence of <<left row, right row>> pairs.
_joiner(l, r, left_on_idx, right_on_idx, p_how, order) ==
    LET pairs == LeftPairs(1, l, r, left_on_idx, right_on_idx, p_how)
                 \o (IF p_how = "outer"
                     THEN UnmatchedRight(l, r, left_on_idx, right_on_idx)
                     ELSE <<>>)
    IN  IF order = "reverse" THEN Reverse(pairs) ELSE pairs

\* ------------------------------------------------------------------------
\* Merge._restore_categorical_keys, called on the locals of perform_merge

RECURSIVE RestoreFrom(_, _, _)
RestoreFrom(i, out_lhs, out_rhs) ==
    IF i > Len(_keys.left)
    THEN [lhs |-> out_lhs, rhs |-> out_rhs]
    ELSE LET left_key == _keys.left[i]
             right_key == _keys.right[i]
         IN  IF /\ KeyGet(left_key, lhs).dtype = "category"
                /\ KeyGet(right_key, rhs).dtype = "category"
             THEN RestoreFrom(i + 1,
                    KeySet(left_key, out_lhs,
                           astype(KeyGet(left_key, out_lhs), "category")),
                    KeySet(right_key, out_rhs,
                           astype(KeyGet(right_key, out_rhs), "category")))
             ELSE RestoreFrom(i + 1, out_lhs, out_rhs)

\* _restore_categorical_keys without the cast back: the copies are returned
\* with the dtypes the comparison used.
_restore_categorical_keys_NoRestore ==
    [lhs |-> copy(pm_lhs, "out_lhs"), rhs |-> copy(pm_rhs, "out_rhs")]

_restore_categorical_keys ==
    IF how = "inner"
    THEN RestoreFrom(1, copy(pm_lhs, "out_lhs"), copy(pm_rhs, "out_rhs"))
    ELSE [lhs |-> copy(pm_lhs, "out_lhs"), rhs |-> copy(pm_rhs, "out_rhs")]

\* ------------------------------------------------------------------------
\* Merge._merge_results

\* Series.fillna(other): the nulls of c take the value of other's row.
fillna(c, other) ==
    Col(c.name, c.dtype,
        [r \in 1..Len(c.vals) |->
            IF c.vals[r] = Null THEN other.vals[r] ELSE c.vals[r]])

\* The outer-join key fill: for every key pair of equal names, the nulls of
\* the left result's key take the right result's key value.
RECURSIVE OuterFillFrom(_, _, _)
OuterFillFrom(i, lres, rres) ==
    IF i > Len(_keys.left) THEN lres
    ELSE LET lkey == _keys.left[i]
             rkey == _keys.right[i]
         IN  IF lkey.name = rkey.name
             THEN OuterFillFrom(i + 1,
                    KeySet(lkey, lres, fillna(KeyGet(lkey, lres), KeyGet(rkey, rres))),
                    rres)
             ELSE OuterFillFrom(i + 1, lres, rres)

\* OuterFill without the fill: the left result's keys are kept as gathered.
OuterFill_NoFill(lres, rres) == lres

OuterFill(lres, rres) ==
    IF how = "outer" THEN OuterFillFrom(1, lres, rres) ELSE lres

\* key_columns_with_same_name: self.on itself when it is true, else the
\* list of the names of the column key pairs whose two names are equal.
SameNamedPairs ==
    SelectSeq([i \in 1..Len(_keys.left) |-> i],
              LAMBDA i : /\ ~_keys.left[i].index /\ ~_keys.right[i].index
                         /\ _keys.left[i].name = _keys.right[i].name)

key_columns_with_same_name ==
    IF ArgTruthy(on) THEN on
    ELSE ArgList([n \in 1..Len(SameNamedPairs) |-> _keys.left[SameNamedPairs[n]].name])

\* left_names after the loop over common_names: <<column, output name>>
\* for every column of the left result, in its order.
left_names(lres, rres) ==
    LET common_names == NameSet(lres.cols) \cap NameSet(rres.cols)
    IN  [i \in 1..Len(lres.cols) |->
            LET name == lres.cols[i].name
            IN  IF /\ name \in common_names
                   /\ ~ArgContains(key_columns_with_same_name, name)
                THEN <<lres.cols[i], PyStr(name) \o PyStr(lsuffix)>>
                ELSE <<lres.cols[i], name>>]

\* right_names after the loop: the same-named key columns are deleted.
right_names(lres, rres) ==
    LET common_names == NameSet(lres.cols) \cap NameSet(rres.cols)
        kept == SelectSeq(rres.cols,
                    LAMBDA c : ~(/\ c.name \in common_names
                                 /\ ArgContains(key_columns_with_same_name, c.name)))
    IN  [i \in 1..Len(kept) |->
            IF kept[i].name \in common_names
            THEN <<kept[i], PyStr(kept[i].name) \o PyStr(rsuffix)>>
            ELSE <<kept[i], kept[i].name>>]

\* data[name] = column, for every entry of `named`, in order.
RECURSIVE AssignAll(_, _, _)
AssignAll(data, named, i) ==
    IF i > Len(named) THEN data
    ELSE AssignAll(SetCol(data, named[i][2], named[i][1]), named, i + 1)

\* ResultIndex taking, with one index flag set, the index of the side whose
\* flag is set.
ResultIndex_OwnSide(lres, rres) ==
    IF left_index /\ right_index
    THEN IF how = "right" THEN rres.index ELSE lres.index
    ELSE IF left_index THEN lres.index
    ELSE IF right_index THEN rres.index
    ELSE <<>>

\* The index of the result (<<>> is None: the default positional index).
ResultIndex(lres, rres) ==
    IF left_index /\ right_index
    THEN IF how = "right" THEN rres.index ELSE lres.index
    ELSE IF left_index THEN rres.index
    ELSE IF right_index THEN lres.index
    ELSE <<>>

\* _out_class looking for a plain Index on both sides.
_out_class_EitherIndex ==
    IF lhs.kind = "MultiIndex" \/ rhs.kind = "MultiIndex"
    THEN "MultiIndex"
    ELSE IF IsIndex(lhs) THEN lhs.kind
    ELSE IF IsIndex(rhs) THEN rhs.kind
    ELSE "DataFrame"

\* The class of the result, set by Merge.__init__.
_out_class ==
    IF lhs.kind = "MultiIndex" \/ rhs.kind = "MultiIndex"
    THEN "MultiIndex"
    ELSE IF IsIndex(lhs) THEN lhs.kind
    ELSE "DataFrame"

\* The result is a new object of class _out_class.
_merge_results(left_res, right_res) ==
    LET lres == OuterFill(left_res, right_res)
        data == AssignAll(AssignAll(<<>>, left_names(lres, right_res), 1),
                          right_names(lres, right_res), 1)
    IN  [kind |-> _out_class,
         ref |-> <<"result">>,
         cols |-> data,
         index |-> ResultIndex(lres, right_res)]

\* MergeSemi._merge_results without the override: the right result is kept.
MergeSemi_merge_results_KeepRight(left_res, right_res) ==
    _merge_results(left_res, right_res)

\* MergeSemi._merge_results
MergeSemi_merge_results(left_res, right_res) ==
    _merge_results(left_res, EmptyFrame)

\* ------------------------------------------------------------------------
\* Merge._sort_result

\* Ascending order of cell values, nulls last.
ValLess(a, b) == a # Null /\ (b = Null \/ a < b)

\* Row i sorts strictly before row j on the key columns `by`, compared
\* lexicographically in the order of `by`.
LexLess(by, i, j) ==
    \E p \in 1..Len(by) :
        /\ \A q \in 1..(p - 1) : by[q].vals[i] = by[q].vals[j]
        /\ ValLess(by[p].vals[i], by[p].vals[j])

\* Row j comes before row i in the stable ascending order.
Before(by, j, i) ==
    LexLess(by, j, i) \/ (~LexLess(by, i, j) /\ j < i)

\* _get_sorted_inds / argsort: the row positions in stable ascending order.
SortedInds(by, n) ==
    [p \in 1..n |->
        CHOOSE i \in 1..n : Cardinality({j \in 1..n : Before(by, j, i)}) = p - 1]

\* The columns looked up by name in the result, KeyError if one is missing.
Lookup(res, names) == [i \in 1..Len(names) |-> GetCol(res.cols, names[i])]

AllPresent(res, names) == \A i \in 1..Len(names) : HasCol(res.cols, names[i])

\* SortBy without the index levels.
SortBy_NoIndex(res) ==
    (IF ArgTruthy(left_on) THEN Lookup(res, _coerce_to_list(left_on)) ELSE <<>>)
    \o (IF ArgTruthy(right_on) THEN Lookup(res, _coerce_to_list(right_on)) ELSE <<>>)

\* The list `by` of the branch without `on`.
SortBy(res) ==
    (IF left_index /\ right_index THEN res.index ELSE <<>>)
    \o (IF ArgTruthy(left_on) THEN Lookup(res, _coerce_to_list(left_on)) ELSE <<>>)
    \o (IF ArgTruthy(right_on) THEN Lookup(res, _coerce_to_list(right_on)) ELSE <<>>)

\* SortOn ordering by the first name of `on` only.
SortOn_FirstKeyOnly(res) ==
    IF ~AllPresent(res, _coerce_to_list(on))
    THEN [err |-> ErrKeyError, result |-> res]
    ELSE [err |-> NoError,
          result |-> _gather(res,
                        SortedInds(Lookup(res, <<_coerce_to_list(on)[1]>>), NumRows(res)),
                        FALSE)]

\* The branch `if self.on:` — the rows in the stable order of the columns
\* named by on (of all its columns, if the result is an Index), the index
\* dropped (keep_index=False).
SortOn(res) ==
    IF IsIndex(res)
    THEN [err |-> NoError,
          result |-> _gather(res, SortedInds(res.cols, NumRows(res)), FALSE)]
    ELSE IF ~AllPresent(res, _coerce_to_list(on))
    THEN [err |-> ErrKeyError, result |-> res]
    ELSE [err |-> NoError,
          result |-> _gather(res,
                        SortedInds(Lookup(res, _coerce_to_list(on)), NumRows(res)),
                        FALSE)]

\* The branch without on: the rows in the order of `by`, if it is not empty.
SortByKeys(res) ==
    IF \/ (ArgTruthy(left_on) /\ ~AllPresent(res, _coerce_to_list(left_on)))
       \/ (ArgTruthy(right_on) /\ ~AllPresent(res, _coerce_to_list(right_on)))
    THEN [err |-> ErrKeyError, result |-> res]
    ELSE IF SortBy(res) # <<>>
    THEN [err |-> NoError,
          result |-> _gather(res, SortedInds(SortBy(res), NumRows(res)), TRUE)]
    ELSE [err |-> NoError, result |-> res]

_sort_result(res) == IF ArgTruthy(on) THEN SortOn(res) ELSE SortByKeys(res)

\* ------------------------------------------------------------------------
\* The merge() call, step by step

Init ==
    /\ pc = "idle"
    /\ lhs = EmptyFrame /\ rhs = EmptyFrame
    /\ on = ArgNone /\ left_on = ArgNone /\ right_on = ArgNone
    /\ left_index = FALSE /\ right_index = FALSE
    /\ how = "inner" /\ sort = FALSE
    /\ lsuffix = PyNone /\ rsuffix = PyNone /\ suffixes = <<>>
    /\ dup = FALSE
    /\ merge_cls = "Merge"
    /\ _keys = [left |-> <<>>, right |-> <<>>]
    /\ pm_lhs = EmptyFrame /\ pm_rhs = EmptyFrame
    /\ selector_calls = <<>>
    /\ left_rows = <<>> /\ right_rows = <<>>
    /\ left_result = EmptyFrame /\ right_result = EmptyFrame
    /\ assembled = EmptyFrame
    /\ result = EmptyFrame
    /\ error = NoError
    /\ trace = <<>>
    /\ OrcIdle
    /\ ScalarIdle

\* merge(lhs, rhs, on=..., ...): the class is chosen from `how`, the
\* arguments are handed to its constructor.
merge ==
    /\ pc = "idle"
    /\ \E shape \in OperandShapes, d \in BOOLEAN :
        /\ lhs' = IF shape[5] = <<>> THEN LeftFrame(shape[1], shape[2])
                  ELSE [LeftFrame(shape[1], shape[2]) EXCEPT !.index = LeftLevels(shape[5])]
        /\ rhs' = IF shape[5] = <<>> THEN RightFrame(shape[3], shape[4], d)
                  ELSE [RightFrame(shape[3], shape[4], d) EXCEPT !.index = RightLevels(shape[5], d)]
        /\ dup' = d
        /\ \E k \in KeyArgs :
            /\ on' = k[1]
            /\ left_on' = k[2]
            /\ right_on' = k[3]
        /\ left_index' \in BOOLEAN
        /\ right_index' \in BOOLEAN
        \* an Index is merged by Index.join, which passes on, how and sort
        /\ IndexShape(shape) =>
            /\ left_on' = ArgNone /\ right_on' = ArgNone
            /\ ~left_index' /\ ~right_index'
    /\ how' \in HowValues
    /\ sort' \in BOOLEAN
    /\ lsuffix' \in LSuffixValues
    /\ rsuffix' \in RSuffixValues
    /\ suffixes' \in SuffixesValues
    /\ merge_cls' = IF how' \in {"leftsemi", "leftanti"} THEN "MergeSemi" ELSE "Merge"
    /\ pc' = "init"
    /\ trace' = <<"merge">>
    /\ UNCHANGED <<_keys, pm_lhs, pm_rhs, selector_calls, left_rows, right_rows, left_result, right_result, assembled, result, error, orc_vars, scalar_vars>>

\* Merge.__init__: validation, then key resolution.
Construct ==
    /\ pc = "init"
    /\ LET verr == _validate_merge_params
           k == _compute_join_keys
       IN  IF verr # NoError
           THEN /\ error' = verr
                /\ pc' = "raised"
                /\ trace' = Append(trace, "_validate_merge_params")
                /\ UNCHANGED _keys
           ELSE IF k.err # NoError
           THEN /\ error' = k.err
                /\ pc' = "raised"
                /\ trace' = trace \o <<"_validate_merge_params", "_compute_join_keys">>
                /\ UNCHANGED _keys
           ELSE /\ _keys' = [left |-> k.left, right |-> k.right]
                /\ pc' = "match_key_dtypes"
                /\ trace' = trace \o <<"_validate_merge_params", "_compute_join_keys">>
                /\ UNCHANGED error
    /\ UNCHANGED <<args, pm_lhs, pm_rhs, selector_calls, left_rows, right_rows, left_result, right_result, assembled, result, orc_vars, scalar_vars>>

\* perform_merge: lhs, rhs = self._match_key_dtypes(self.lhs, self.rhs)
MatchKeyDtypes ==
    /\ pc = "match_key_dtypes"
    /\ LET m == _match_key_dtypes
       IN  IF m.err # NoError
           THEN /\ error' = m.err
                /\ pc' = "raised"
                /\ UNCHANGED <<lhs, rhs, pm_lhs, pm_rhs>>
           ELSE /\ pm_lhs' = m.lhs
                /\ pm_rhs' = m.rhs
                /\ lhs' = Stored(lhs, {m.lhs, m.rhs})
                /\ rhs' = Stored(rhs, {m.lhs, m.rhs})
                /\ pc' = "joiner"
                /\ UNCHANGED error
    /\ trace' = Append(trace, "_match_key_dtypes")
    /\ UNCHANGED <<params, _keys, selector_calls, left_rows, right_rows, left_result, right_result, assembled, result, orc_vars, scalar_vars>>

\* Joiner handing the row selector the operands themselves instead of the
\* copies _match_key_dtypes returned.
Joiner_OnOperands ==
    /\ pc = "joiner"
    /\ LET left_key_indices ==
               [i \in 1..Len(_keys.left) |-> get_numeric_index(_keys.left[i], lhs)]
           right_key_indices ==
               [i \in 1..Len(_keys.right) |-> get_numeric_index(_keys.right[i], rhs)]
       IN  /\ selector_calls' = Append(selector_calls,
                  [lhs |-> lhs, rhs |-> rhs, left_on |-> left_key_indices,
                   right_on |-> right_key_indices, how |-> how])
           /\ \/ /\ \E order \in JoinOrders :
                    LET sel == _joiner(lhs, rhs, left_key_indices, right_key_indices, how, order)
                    IN  /\ left_rows' = [i \in 1..Len(sel) |-> sel[i][1]]
                        /\ right_rows' = [i \in 1..Len(sel) |-> sel[i][2]]
                 /\ pc' = "restore_categorical_keys"
                 /\ UNCHANGED error
              \/ /\ left_key_indices = <<>>
                 /\ error' = ErrEngine
                 /\ pc' = "raised"
                 /\ UNCHANGED <<left_rows, right_rows>>
    /\ trace' = Append(trace, "_joiner")
    /\ UNCHANGED <<args, _keys, pm_lhs, pm_rhs, left_result, right_result, assembled, result, orc_vars, scalar_vars>>

\* perform_merge: the key positions, then the one call of the row selector,
\* which returns a selection or, handed no key at all, may raise instead.
Joiner ==
    /\ pc = "joiner"
    /\ LET left_key_indices ==
               [i \in 1..Len(_keys.left) |-> get_numeric_index(_keys.left[i], pm_lhs)]
           right_key_indices ==
               [i \in 1..Len(_keys.right) |-> get_numeric_index(_keys.right[i], pm_rhs)]
       IN  /\ selector_calls' = Append(selector_calls,
                  [lhs |-> pm_lhs, rhs |-> pm_rhs, left_on |-> left_key_indices,
                   right_on |-> right_key_indices, how |-> how])
           /\ \/ /\ \E order \in JoinOrders :
                    LET sel == _joiner(pm_lhs, pm_rhs, left_key_indices, right_key_indices, how, order)
                    IN  /\ left_rows' = [i \in 1..Len(sel) |-> sel[i][1]]
                        /\ right_rows' = [i \in 1..Len(sel) |-> sel[i][2]]
                 /\ pc' = "restore_categorical_keys"
                 /\ UNCHANGED error
              \/ /\ left_key_indices = <<>>
                 /\ error' = ErrEngine
                 /\ pc' = "raised"
                 /\ UNCHANGED <<left_rows, right_rows>>
    /\ trace' = Append(trace, "_joiner")
    /\ UNCHANGED <<args, _keys, pm_lhs, pm_rhs, left_result, right_result, assembled, result, orc_vars, scalar_vars>>

\* perform_merge: lhs, rhs = self._restore_categorical_keys(lhs, rhs)
RestoreCategoricalKeys ==
    /\ pc = "restore_categorical_keys"
    /\ pm_lhs' = _restore_categorical_keys.lhs
    /\ pm_rhs' = _restore_categorical_keys.rhs
    /\ lhs' = Stored(lhs, {pm_lhs', pm_rhs'})
    /\ rhs' = Stored(rhs, {pm_lhs', pm_rhs'})
    /\ pc' = "gather_left"
    /\ trace' = Append(trace, "_restore_categorical_keys")
    /\ UNCHANGED <<params, _keys, selector_calls, left_rows, right_rows, left_result, right_result, assembled, result, error, orc_vars, scalar_vars>>

\* GatherLeft without nullify: the "no match" positions select no row.
GatherLeft_NoNullify ==
    /\ pc = "gather_left"
    /\ left_result' = _gather(pm_lhs, SelectSeq(left_rows, LAMBDA i : i # NoMatch), TRUE)
    /\ pc' = "gather_right"
    /\ trace' = Append(trace, "_gather left")
    /\ UNCHANGED <<args, _keys, pm_lhs, pm_rhs, selector_calls, left_rows, right_rows, right_result, assembled, result, error, orc_vars, scalar_vars>>

\* perform_merge: left_result = lhs._gather(left_rows, nullify=True)
GatherLeft ==
    /\ pc = "gather_left"
    /\ left_result' = _gather(pm_lhs, left_rows, TRUE)
    /\ pc' = "gather_right"
    /\ trace' = Append(trace, "_gather left")
    /\ UNCHANGED <<args, _keys, pm_lhs, pm_rhs, selector_calls, left_rows, right_rows, right_result, assembled, result, error, orc_vars, scalar_vars>>

\* perform_merge: right_result = rhs._gather(right_rows, nullify=True)
GatherRight ==
    /\ pc = "gather_right"
    /\ right_result' = _gather(pm_rhs, right_rows, TRUE)
    /\ pc' = "merge_results"
    /\ trace' = Append(trace, "_gather right")
    /\ UNCHANGED <<args, _keys, pm_lhs, pm_rhs, selector_calls, left_rows, right_rows, left_result, assembled, result, error, orc_vars, scalar_vars>>

\* MergeResults with the overlap check of the validation made here, on the
\* attributes of the merge object, instead of before the row selector.
MergeResults_LateOverlapCheck ==
    /\ pc = "merge_results"
    /\ IF /\ \E i \in 1..Len(left_names(left_result, right_result)) :
                left_names(left_result, right_result)[i][2] # left_result.cols[i].name
          /\ ~(StrTruthy(lsuffix) \/ StrTruthy(rsuffix))
       THEN /\ error' = ErrOverlap
            /\ pc' = "raised"
            /\ UNCHANGED <<assembled, result>>
       ELSE /\ assembled' = IF merge_cls = "MergeSemi"
                            THEN _merge_results(left_result, EmptyFrame)
                            ELSE _merge_results(left_result, right_result)
            /\ result' = assembled'
            /\ pc' = "sort"
            /\ UNCHANGED error
    /\ trace' = Append(trace, "_merge_results")
    /\ UNCHANGED <<args, _keys, pm_lhs, pm_rhs, selector_calls, left_rows, right_rows, left_result, right_result, orc_vars, scalar_vars>>

\* perform_merge: result = self._merge_results(left_result, right_result),
\* dispatched on the class of the merge object.  The outer key fill assigns
\* key columns of the left result, the object the left gather returned.
MergeResults ==
    /\ pc = "merge_results"
    /\ assembled' = IF merge_cls = "MergeSemi"
                    THEN MergeSemi_merge_results(left_result, right_result)
                    ELSE _merge_results(left_result, right_result)
    /\ result' = assembled'
    /\ lhs' = Stored(lhs, {OuterFill(left_result, right_result)})
    /\ rhs' = Stored(rhs, {OuterFill(left_result, right_result)})
    /\ pc' = "sort"
    /\ trace' = Append(trace, "_merge_results")
    /\ UNCHANGED <<params, _keys, pm_lhs, pm_rhs, selector_calls, left_rows, right_rows, left_result, right_result, error, orc_vars, scalar_vars>>

\* perform_merge: if self.sort: result = self._sort_result(result); return
SortResult ==
    /\ pc = "sort"
    /\ sort
    /\ LET s == _sort_result(result)
       IN  IF s.err # NoError
           THEN /\ error' = s.err
                /\ pc' = "raised"
                /\ UNCHANGED result
           ELSE /\ result' = s.result
                /\ pc' = "done"
                /\ UNCHANGED error
    /\ trace' = Append(trace, "_sort_result")
    /\ UNCHANGED <<args, _keys, pm_lhs, pm_rhs, selector_calls, left_rows, right_rows, left_result, right_result, assembled, orc_vars, scalar_vars>>

\* ReturnUnsorted handing back the assembled rows in the opposite order.
ReturnUnsorted_Reversed ==
    /\ pc = "sort"
    /\ ~sort
    /\ result' = _gather(result, Reverse(RowIds(result)), TRUE)
    /\ pc' = "done"
    /\ UNCHANGED <<args, _keys, pm_lhs, pm_rhs, selector_calls, left_rows, right_rows, left_result, right_result, assembled, error, trace, orc_vars, scalar_vars>>

\* perform_merge with sort false: the assembled result is returned as it is.
ReturnUnsorted ==
    /\ pc = "sort"
    /\ ~sort
    /\ pc' = "done"
    /\ UNCHANGED <<args, _keys, pm_lhs, pm_rhs, selector_calls, left_rows, right_rows, left_result, right_result, assembled, result, error, trace, orc_vars, scalar_vars>>

Next ==
    \/ merge
    \/ Construct
    \/ MatchKeyDtypes
    \/ Joiner
    \/ RestoreCategoricalKeys
    \/ GatherLeft
    \/ GatherRight
    \/ MergeResults
    \/ SortResult
    \/ ReturnUnsorted

Spec == Init /\ [][Next]_vars

\* ------------------------------------------------------------------------
\* Properties of the merge

Called(step) == \E i \in 1..Len(trace) : trace[i] = step

\* The call has passed Merge.__init__ (it returned or it raised).
Constructed == pc \notin {"idle", "init"}

\* _merge_results has returned.
Assembled == Called("_merge_results")

\* The names of the key pairs made of two columns of the same name, as the
\* key resolution pairs them.
SameNamedKeyNames ==
    LET k == _compute_join_keys
    IN  {k.left[i].name : i \in {j \in 1..Len(k.left) :
            /\ j <= Len(k.right)
            /\ ~k.left[j].index /\ ~k.right[j].index
            /\ k.left[j].name = k.right[j].name}}

\* The column names lhs and rhs share.
SharedNames == NameSet(lhs.cols) \cap NameSet(rhs.cols)

\* The checks of the validation that come before the overlap check pass,
\* the key lists have equal lengths and every key names an existing column
\* or index level.
KeySpecAccepted ==
    /\ how \in {"left", "inner", "outer", "leftanti", "leftsemi"}
    /\ ~(ArgTruthy(on) /\ (ArgTruthy(left_on) \/ ArgTruthy(right_on)))
    /\ ~UnnamedSeries(lhs) /\ ~UnnamedSeries(rhs)
    /\ ~(~(left_index \/ right_index) /\ ~(ArgTruthy(left_on) \/ ArgTruthy(right_on))
         /\ SharedNames = {})
    /\ _compute_join_keys.err = NoError
    /\ \A i \in 1..Len(_compute_join_keys.left) :
        /\ KeyPresent(_compute_join_keys.left[i], lhs)
        /\ KeyPresent(_compute_join_keys.right[i], rhs)

NoSuffixSupplied == ~StrTruthy(lsuffix) /\ ~StrTruthy(rsuffix) /\ suffixes = <<>>

ParamErrors == {ErrHow, ErrAmbiguous, ErrUnnamed, ErrNoCommon, ErrKeyCount, ErrOverlap}

\* C1: every parameter-caused failure of merge() (unsupported how, on with
\* left_on/right_on, unnamed Series, no common columns, unequal numbers of
\* keys, overlapping columns without suffixes) is raised before the row
\* selector is invoked and before any gather: a call that ended with one of
\* these errors has taken none of the steps of perform_merge.
C1_ParamErrorsBeforeJoiner ==
    error \in ParamErrors =>
        /\ pc = "raised"
        /\ ~Called("_match_key_dtypes")
        /\ ~Called("_joiner")
        /\ ~Called("_gather left")
        /\ ~Called("_gather right")
        /\ ~Called("_merge_results")
        /\ left_rows = <<>> /\ right_rows = <<>>
        /\ left_result = EmptyFrame /\ right_result = EmptyFrame

\* A call rejected by the last of the parameter checks, the key count.
C1_Witness ==
    /\ pc = "raised"
    /\ error = ErrKeyCount
    /\ trace = <<"merge", "_validate_merge_params", "_compute_join_keys">>

\* C2: whenever lhs and rhs share a column name that is not the name of a
\* same-named key pair and no suffix is supplied, constructing the merge
\* raises the overlapping-columns ValueError, however the keys are given.
C2_OverlapWithoutSuffixRaises ==
    (/\ Constructed
     /\ KeySpecAccepted
     /\ NoSuffixSupplied
     /\ SharedNames \ SameNamedKeyNames # {})
    => error = ErrOverlap

\* C3: when lhs and rhs share a non-key column name x and the caller gives
\* suffixes=(l, r), the result of an inner/left/outer merge holds the left
\* column as x+l and the right column as x+r, and has no column named x.
C3_SuffixesPairRenames ==
    (/\ Assembled
     /\ how \in {"inner", "left", "outer"}
     /\ suffixes # <<>>)
    => \A x \in SharedNames \ SameNamedKeyNames :
        /\ HasCol(assembled.cols, x \o suffixes[1])
        /\ GetCol(assembled.cols, x \o suffixes[1]).vals = GetCol(left_result.cols, x).vals
        /\ HasCol(assembled.cols, x \o suffixes[2])
        /\ GetCol(assembled.cols, x \o suffixes[2]).vals = GetCol(right_result.cols, x).vals
        /\ ~HasCol(assembled.cols, x)

\* C4: when the only column names lhs and rhs share are same-named join
\* keys given by on (a str or a list) or used implicitly, the validation
\* does not raise the overlapping-columns error although no suffix is
\* supplied, and the merge proceeds.
C4_SharedKeysNeedNoSuffix ==
    (/\ Constructed
     /\ KeySpecAccepted
     /\ NoSuffixSupplied
     /\ ~left_index /\ ~right_index
     /\ ~ArgTruthy(left_on) /\ ~ArgTruthy(right_on)
     /\ SharedNames \subseteq SameNamedKeyNames)
    => (error # ErrOverlap /\ Called("_compute_join_keys"))

\* The output name of a column of one side: suffixed when the other side
\* has a column of that name and the name is no same-named key.
OutName(name, suffix) ==
    IF name \in SharedNames \ SameNamedKeyNames
    THEN PyStr(name) \o PyStr(suffix)
    ELSE name

\* The column names of the result as the column order law gives them.
ExpectedNames ==
    LET rkept == SelectSeq(Names(rhs.cols), LAMBDA n : n \notin SameNamedKeyNames)
    IN  [i \in 1..Len(lhs.cols) |-> OutName(lhs.cols[i].name, lsuffix)]
        \o [i \in 1..Len(rkept) |-> OutName(rkept[i], rsuffix)]

\* C5: for how in {inner, left, outer} the columns of the result are the
\* left result's columns in their order, each under its possibly suffixed
\* name, followed by the right result's columns in their order, each under
\* its possibly suffixed name, without the same-named join keys.
C5_ColumnOrder ==
    (Assembled /\ how \in {"inner", "left", "outer"})
    => Names(assembled.cols) = ExpectedNames

\* C6: in an inner/left/outer merge a right column is omitted from the
\* result exactly if its name is the name of a same-named column key pair,
\* and then the one column of that name holds the left result's values;
\* every other right column is in the result, suffixed if lhs has a column
\* of its name.  (on may be a list or a str.)
C6_OnlySameNamedKeysOmitted ==
    (Assembled /\ how \in {"inner", "left", "outer"})
    => \A i \in 1..Len(right_result.cols) :
        LET c == right_result.cols[i]
        IN  IF c.name \in SameNamedKeyNames
            THEN /\ HasCol(assembled.cols, c.name)
                 /\ \A r \in 1..Len(c.vals) :
                        GetCol(left_result.cols, c.name).vals[r] # Null
                        => GetCol(assembled.cols, c.name).vals[r]
                               = GetCol(left_result.cols, c.name).vals[r]
                 /\ ~HasCol(assembled.cols, PyStr(c.name) \o PyStr(rsuffix))
            ELSE /\ HasCol(assembled.cols, OutName(c.name, rsuffix))
                 /\ GetCol(assembled.cols, OutName(c.name, rsuffix)).vals = c.vals

C8_RowCount ==
    (pc \in {"sort", "done"} /\ how \in {"inner", "left", "outer"})
    => /\ Len(left_rows) = Len(right_rows)
       /\ result.cols # <<>>
       /\ \A i \in 1..Len(result.cols) : Len(result.cols[i].vals) = Len(left_rows)
       /\ \A i \in 1..Len(result.index) : Len(result.index[i].vals) = Len(right_rows)

\* A sorted outer merge whose selection has more rows than either operand.
C8_Witness ==
    /\ pc = "done" /\ sort /\ how = "outer"
    /\ Called("_sort_result")
    /\ Len(left_rows) > MaxRows
    /\ NumRows(result) = Len(left_rows)

\* One row of a frame's data columns.
RowOf(f, r) == [i \in 1..Len(f.cols) |-> f.cols[i].vals[r]]

\* How often the row `row` occurs in f.
Occurrences(f, row) == Cardinality({r \in 1..NumRows(f) : RowOf(f, r) = row})

\* The key of row r of the result on the columns named by `on`.
OnKey(r) ==
    [p \in 1..Len(_coerce_to_list(on)) |->
        GetCol(result.cols, _coerce_to_list(on)[p]).vals[r]]

\* a is not after b in the lexicographic order, a null being the largest.
KeyLeq(a, b) ==
    \/ a = b
    \/ \E p \in 1..Len(a) :
        /\ \A q \in 1..(p - 1) : a[q] = b[q]
        /\ a[p] # Null
        /\ (b[p] = Null \/ a[p] < b[p])

\* perform_merge from the row selector on, had the selector returned its
\* selection in the given order: the assembled and the returned frame.
SecondRun(order) ==
    LET left_key_indices ==
            [i \in 1..Len(_keys.left) |-> get_numeric_index(_keys.left[i], pm_lhs)]
        right_key_indices ==
            [i \in 1..Len(_keys.right) |-> get_numeric_index(_keys.right[i], pm_rhs)]
        sel == _joiner(pm_lhs, pm_rhs, left_key_indices, right_key_indices, how, order)
        lres == _gather(pm_lhs, [i \in 1..Len(sel) |-> sel[i][1]], TRUE)
        rres == _gather(pm_rhs, [i \in 1..Len(sel) |-> sel[i][2]], TRUE)
        asm == IF merge_cls = "MergeSemi"
               THEN MergeSemi_merge_results(lres, rres)
               ELSE _merge_results(lres, rres)
    IN  [assembled |-> asm,
         result |-> IF sort THEN _sort_result(asm).result ELSE asm]

\* The values of the on columns of frame f, row by row.
OnKeysOf(f) ==
    [r \in 1..NumRows(f) |->
        [p \in 1..Len(_coerce_to_list(on)) |->
            GetCol(f.cols, _coerce_to_list(on)[p]).vals[r]]]

\* No two rows of the result agree on every on column.
OnKeysDistinct ==
    \A r1, r2 \in 1..NumRows(result) : OnKey(r1) = OnKey(r2) => r1 = r2

\* The rows of the result are a permutation of the assembled rows, and the
\* values of the on columns are non-decreasing, lexicographically in the
\* order of on.
SortedPermutation ==
    /\ Names(result.cols) = Names(assembled.cols)
    /\ NumRows(result) = NumRows(assembled)
    /\ \A r \in 1..NumRows(result) :
         Occurrences(result, RowOf(result, r)) = Occurrences(assembled, RowOf(result, r))
    /\ \A r \in 1..(NumRows(result) - 1) : KeyLeq(OnKey(r), OnKey(r + 1))

\* C9 as stated: with sort=True and an explicit on, the rows of the result
\* are a permutation of the assembled rows with the on columns
\* non-decreasing, and a second run of the same merge, whatever order the
\* row selector returns its selection in, yields the identical rows in the
\* identical order.
C9_SortedAndRepeatable ==
    (pc = "done" /\ sort /\ ArgTruthy(on))
    => /\ SortedPermutation
       /\ \A order \in JoinOrders : SecondRun(order).result = result

\* C9 amended: with sort=True and an explicit on, the rows of the result are
\* a permutation of the assembled rows with the on columns non-decreasing,
\* lexicographically in the order of on; a second run yields the identical
\* sequence of on values, and the identical row order when no two rows agree
\* on every on column.
C9_SortedOnKeys ==
    (pc = "done" /\ sort /\ ArgTruthy(on))
    => /\ SortedPermutation
       /\ \A order \in JoinOrders :
            /\ OnKeysOf(SecondRun(order).result) = OnKeysOf(result)
            /\ OnKeysDistinct => SecondRun(order).result = result

\* A merge on two keys whose rows the selector can return in two orders:
\* two rows agree on the first key only, the sort moved rows, and a second
\* run assembles the rows in another order.
C9_Witness ==
    /\ pc = "done" /\ sort
    /\ on = ArgList(<<Name_id, Name_d>>)
    /\ result.cols # assembled.cols
    /\ OnKeysDistinct
    /\ \E order \in JoinOrders : SecondRun(order).assembled.cols # assembled.cols
    /\ \E r \in 1..(NumRows(result) - 1) :
        /\ OnKey(r)[1] = OnKey(r + 1)[1]
        /\ OnKey(r)[2] < OnKey(r + 1)[2]

\* C10: for how in {leftsemi, leftanti} the column names of the result are
\* the column names of lhs, in the order of lhs: no right column, and no
\* suffix on a left column, whatever names the operands share and whatever
\* the suffix arguments are.
C10_SemiKeepsLeftColumns ==
    (Assembled /\ how \in {"leftsemi", "leftanti"})
    => /\ Names(assembled.cols) = Names(lhs.cols)
       /\ Names(result.cols) = Names(lhs.cols)
       /\ assembled.cols = left_result.cols

\* A semi merge of operands sharing a non-key column, with suffixes given,
\* that selected at least one row.
C10_Witness ==
    /\ pc = "done" /\ how = "leftsemi"
    /\ SharedNames \ SameNamedKeyNames # {}
    /\ StrTruthy(lsuffix) /\ StrTruthy(rsuffix)
    /\ NumRows(result) > 0

\* The key pairs whose key column is categorical in both operands.
CategoricalPairs ==
    {i \in 1..Len(_keys.left) :
        /\ KeyGet(_keys.left[i], lhs).dtype = "category"
        /\ KeyGet(_keys.right[i], rhs).dtype = "category"}

\* C11: in an inner merge, every key pair that is categorical in both
\* operands is categorical again once _restore_categorical_keys has
\* returned: in the frames the rows are gathered from, in the gathered
\* frames and in the key columns of the result.
C11_CategoricalKeysRestored ==
    (how = "inner" /\ Called("_restore_categorical_keys"))
    => \A i \in CategoricalPairs :
        /\ KeyGet(_keys.left[i], pm_lhs).dtype = "category"
        /\ KeyGet(_keys.right[i], pm_rhs).dtype = "category"
        /\ Called("_gather left")
            => KeyGet(_keys.left[i], left_result).dtype = "category"
        /\ Called("_gather right")
            => KeyGet(_keys.right[i], right_result).dtype = "category"
        /\ (Assembled /\ ~_keys.left[i].index /\ ~_keys.right[i].index)
            => /\ GetCol(assembled.cols, _keys.left[i].name).dtype = "category"
               /\ GetCol(assembled.cols, _keys.right[i].name).dtype = "category"
               /\ GetCol(result.cols, _keys.left[i].name).dtype = "category"
               /\ GetCol(result.cols, _keys.right[i].name).dtype = "category"

\* An inner merge of the categorical keys a and b that matched a row: the
\* row selector compared the keys as int64, the result holds them as
\* category.
C11_Witness ==
    /\ pc = "done" /\ how = "inner"
    /\ CategoricalPairs # {}
    /\ NumRows(result) > 0
    /\ GetCol(selector_calls[1].lhs.cols, Name_a).dtype = "int64"
    /\ GetCol(selector_calls[1].rhs.cols, Name_b).dtype = "int64"
    /\ GetCol(result.cols, Name_a).dtype = "category"
    /\ GetCol(result.cols, Name_b).dtype = "category"

\* C12: from the moment merge() is called until it returns or raises, no
\* step changes lhs or rhs: column names and their order, dtypes, values
\* and index stay what they were when the call was made.
C12_InputsNeverMutated ==
    [][pc # "idle" => (lhs' = lhs /\ rhs' = rhs)]_vars

\* A finished inner merge whose row selector was handed key columns of
\* another dtype than the operands have, while the operands are still the
\* frames the call was made with.
C12_Witness ==
    /\ pc = "done" /\ how = "inner"
    /\ selector_calls[1].lhs.cols # lhs.cols
    /\ selector_calls[1].rhs.cols # rhs.cols
    /\ lhs = LeftFrame(lhs.kind, Names(lhs.cols))
    /\ rhs = RightFrame(rhs.kind, Names(rhs.cols), dup)

\* The join kinds the validation accepts.
SupportedHow == how \in {"left", "inner", "outer", "leftsemi", "leftanti"}

\* C13: for every how outside {left, inner, outer, leftsemi, leftanti},
\* "right" included, merge raises NotImplementedError in the validation:
\* no key has been resolved and the row selector has not been invoked.
C13_UnsupportedHowRaises ==
    (Constructed /\ ~SupportedHow)
    => /\ pc = "raised"
       /\ error = ErrHow
       /\ trace = <<"merge", "_validate_merge_params">>
       /\ _keys = [left |-> <<>>, right |-> <<>>]
       /\ selector_calls = <<>>

\* A call with how="right" that is valid in every other respect.
C13_Witness ==
    /\ pc = "raised" /\ error = ErrHow
    /\ how = "right"
    /\ on = ArgList(<<Name_id>>) /\ left_on = ArgNone /\ right_on = ArgNone
    /\ ~left_index /\ ~right_index
    /\ Names(lhs.cols) = <<Name_id, Name_v>> /\ Names(rhs.cols) = <<Name_id, Name_w>>
    /\ lhs.kind = "DataFrame" /\ rhs.kind = "DataFrame"

\* C14: if on is supplied together with left_on, with right_on or with
\* both, merge raises the "on OR left_on and right_on" ValueError in the
\* validation, for every supported how and whatever left_index and
\* right_index are.  (An argument is supplied when it is given a value
\* Python takes as true: a non-empty str or list.)
C14_OnWithLeftOrRightOnRaises ==
    (/\ Constructed
     /\ SupportedHow
     /\ ArgTruthy(on)
     /\ (ArgTruthy(left_on) \/ ArgTruthy(right_on)))
    => /\ pc = "raised"
       /\ error = ErrAmbiguous
       /\ trace = <<"merge", "_validate_merge_params">>
       /\ selector_calls = <<>>

\* on together with right_on alone, with both index flags set.
C14_Witness ==
    /\ pc = "raised" /\ error = ErrAmbiguous
    /\ ArgTruthy(on) /\ ~ArgTruthy(left_on) /\ ArgTruthy(right_on)
    /\ left_index /\ right_index
    /\ how = "leftanti"

\* None of on, left_on, right_on, left_index, right_index is given.
NoKeyArgs ==
    /\ on = ArgNone /\ ~ArgTruthy(left_on) /\ ~ArgTruthy(right_on)
    /\ ~left_index /\ ~right_index

\* The two key lists are the column names lhs and rhs share, each once, each
\* paired with itself as a column key.
KeysAreCommonColumns(left_keys, right_keys) ==
    /\ left_keys = right_keys
    /\ \A i \in 1..Len(left_keys) : ~left_keys[i].index
    /\ {left_keys[i].name : i \in 1..Len(left_keys)} = SharedNames
    /\ Len(left_keys) = Cardinality(SharedNames)

\* C15: when none of on, left_on, right_on, left_index, right_index is
\* given, the key resolution yields exactly the column names present in
\* both lhs and rhs, each paired with its same-named counterpart as a
\* column key, and these are the keys of the merge object; if lhs and rhs
\* share no column name, merge raises "No common columns to perform merge
\* on".
C15_ImplicitKeys ==
    (/\ Constructed /\ SupportedHow /\ NoKeyArgs
     /\ ~UnnamedSeries(lhs) /\ ~UnnamedSeries(rhs))
    => IF SharedNames = {}
       THEN pc = "raised" /\ error = ErrNoCommon /\ ~Called("_compute_join_keys")
       ELSE /\ error # ErrNoCommon
            /\ KeysAreCommonColumns(_compute_join_keys.left, _compute_join_keys.right)
            /\ Called("_compute_join_keys")
                => /\ error # ErrKeyCount
                   /\ KeysAreCommonColumns(_keys.left, _keys.right)

\* A finished merge without any key argument of operands that share two of
\* their three column names.
C15_Witness ==
    /\ pc = "done" /\ NoKeyArgs
    /\ Names(lhs.cols) = <<Name_x, Name_id, Name_v>>
    /\ Names(rhs.cols) = <<Name_w, Name_id, Name_x>>
    /\ Len(_keys.left) = 2
    /\ selector_calls[1].left_on = <<2, 3>>
    /\ selector_calls[1].right_on = <<4, 3>>

\* The constructor returned: perform_merge has begun or can begin.
ConstructionSucceeded == pc \notin {"idle", "init"} /\ Called("_compute_join_keys") /\ error # ErrKeyCount

\* C16: the construction of a merge succeeds only if the resolved left and
\* right key lists have the same length; a call that passes the validation
\* with key lists of different lengths is rejected by the constructor with
\* "Merge operands must have same number of join key columns".  left_on
\* without right_on or right_index, right_on without left_on or left_index,
\* and an index whose number of levels differs from the number of keys of
\* the other side never get past the constructor.
C16_EqualKeyCounts ==
    Constructed
    => /\ ConstructionSucceeded => Len(_keys.left) = Len(_keys.right)
       /\ (/\ _validate_merge_params = NoError
           /\ Len(_compute_join_keys.left) # Len(_compute_join_keys.right))
          => /\ pc = "raised" /\ error = ErrKeyCount
             /\ trace = <<"merge", "_validate_merge_params", "_compute_join_keys">>
             /\ selector_calls = <<>>
       /\ (\/ ArgTruthy(left_on) /\ ~ArgTruthy(right_on) /\ ~right_index
           \/ ArgTruthy(right_on) /\ ~ArgTruthy(left_on) /\ ~left_index
           \/ /\ left_index /\ ~ArgTruthy(left_on) /\ ~right_index
              /\ Len(lhs.index) # Len(_coerce_to_tuple(right_on))
           \/ /\ right_index /\ ~ArgTruthy(right_on) /\ ~left_index
              /\ Len(rhs.index) # Len(_coerce_to_tuple(left_on)))
          => pc = "raised" /\ ~ConstructionSucceeded

\* The one-level index of lhs against two key columns of rhs.
C16_Witness ==
    /\ pc = "raised" /\ error = ErrKeyCount
    /\ left_index /\ ~right_index /\ ~ArgTruthy(left_on)
    /\ right_on = ArgList(<<Name_id, Name_d>>)
    /\ Len(_compute_join_keys.left) = 1 /\ Len(_compute_join_keys.right) = 2

\* C17: whenever the construction of a merge succeeds, each of the two
\* resolved key lists holds at least one key, whatever values on, left_on,
\* right_on, left_index and right_index have (an empty list included), and
\* the row selector is never called with an empty key list.
C17_KeyListsNotEmpty ==
    /\ ConstructionSucceeded => (Len(_keys.left) >= 1 /\ Len(_keys.right) >= 1)
    /\ \A n \in 1..Len(selector_calls) :
        selector_calls[n].left_on # <<>> /\ selector_calls[n].right_on # <<>>

\* The index `idx` is the index of the gathered frame src: the same levels
\* under the same names, holding the values of src wherever src has one
\* (an outer merge fills the nulls of the left result's key levels, C7),
\* and exactly the values of src when nothing is filled.
IsIndexOf(idx, src, filled) ==
    /\ Len(idx) = Len(src.index)
    /\ \A i \in 1..Len(idx) :
        /\ idx[i].name = src.index[i].name
        /\ Len(idx[i].vals) = Len(src.index[i].vals)
        /\ \A r \in 1..Len(idx[i].vals) :
            (src.index[i].vals[r] # Null \/ ~filled)
            => idx[i].vals[r] = src.index[i].vals[r]

ExpectedClass ==
    IF lhs.kind = "MultiIndex" \/ rhs.kind = "MultiIndex" THEN "MultiIndex"
    ELSE IF lhs.kind = "Int64Index" THEN lhs.kind
    ELSE IF rhs.kind = "Int64Index" THEN rhs.kind
    ELSE "DataFrame"

\* C19: the result of a merge is a MultiIndex if lhs or rhs is a MultiIndex,
\* else of the Index class of the operand, lhs or rhs, that is a plain
\* Index, else a DataFrame.
C19_ResultClass ==
    Assembled
    => /\ assembled.kind = ExpectedClass
       /\ pc = "done" => result.kind = ExpectedClass

\* C19 amended: the result of a merge is a MultiIndex if lhs or rhs is a
\* MultiIndex, else of the class of lhs if lhs is a plain Index, else a
\* DataFrame; a plain Index as rhs does not change the class.
C19_ResultClassFromLhs ==
    Assembled
    => LET cls == IF "MultiIndex" \in {lhs.kind, rhs.kind} THEN "MultiIndex"
                  ELSE IF lhs.kind = "Int64Index" THEN "Int64Index"
                  ELSE "DataFrame"
       IN  /\ assembled.kind = cls
           /\ pc = "done" => result.kind = cls

\* Finished merges of each kind: two plain Indexes give an Index, a plain
\* Index with a MultiIndex gives a MultiIndex.
C19_Witness ==
    /\ pc = "done" /\ sort
    /\ lhs.kind = "Int64Index"
    /\ rhs.kind \in {"Int64Index", "MultiIndex"}
    /\ result.kind = rhs.kind
    /\ NumRows(result) > 0

\* The steps of a successful merge, in order.
StepsOfMerge ==
    << "merge", "_validate_merge_params", "_compute_join_keys",
       "_match_key_dtypes", "_joiner", "_restore_categorical_keys",
       "_gather left", "_gather right", "_merge_results" >>
    \o (IF sort THEN <<"_sort_result">> ELSE <<>>)

IsPrefix(s, t) == Len(s) <= Len(t) /\ SubSeq(t, 1, Len(s)) = s

\* C20: the steps of a merge are taken in the order validation, key
\* resolution, key dtype normalization, row selector, categorical
\* restoration, gather of the left rows, gather of the right rows,
\* assembly and, only when sort is set, the sort: at every moment the
\* steps taken are an initial part of that sequence, and a successful merge
\* has taken all of them.  The row selector is called once, with the copies
\* the dtype normalization returned and not with lhs and rhs themselves.
C20_StepOrder ==
    /\ pc # "idle" => IsPrefix(trace, StepsOfMerge)
    /\ Len(selector_calls) <= 1
    /\ Called("_joiner") <=> Len(selector_calls) = 1
    /\ selector_calls # <<>>
        => /\ selector_calls[1].lhs = _match_key_dtypes.lhs
           /\ selector_calls[1].rhs = _match_key_dtypes.rhs
           /\ selector_calls[1].lhs.ref # lhs.ref
           /\ selector_calls[1].rhs.ref # rhs.ref
           /\ selector_calls[1].how = how
    /\ pc = "done" => (trace = StepsOfMerge /\ Len(selector_calls) = 1)

\* A finished sorted inner merge on categorical keys: all ten steps, and a
\* row selector that saw other key dtypes than the operands have.
C20_Witness ==
    /\ pc = "done" /\ sort /\ how = "inner"
    /\ Len(trace) = 10
    /\ trace[5] = "_joiner" /\ trace[10] = "_sort_result"
    /\ selector_calls[1].lhs.cols # lhs.cols

\* The values of the column or index level o are, row by row, those of one
\* column or index level of lhs at the rows left_rows selects (null where
\* there is no match).
FromLeftRows(o) ==
    \E i \in 1..Len(FlatCols(lhs)) :
        o.vals = GatherVals(FlatCols(lhs)[i].vals, left_rows)

\* The same for rhs and right_rows.
FromRightRows(o) ==
    \E j \in 1..Len(FlatCols(rhs)) :
        o.vals = GatherVals(FlatCols(rhs)[j].vals, right_rows)

\* A same-named key of an outer merge (C7): the value of lhs row
\* left_rows[r], and of rhs row right_rows[r] where left_rows[r] is no match.
FromBothRows(o) ==
    /\ how = "outer"
    /\ \E i \in 1..Len(FlatCols(lhs)), j \in 1..Len(FlatCols(rhs)) :
        /\ FlatCols(lhs)[i].name = FlatCols(rhs)[j].name
        /\ o.vals = [r \in 1..Len(left_rows) |->
                        IF left_rows[r] \in 1..NumRows(lhs)
                        THEN FlatCols(lhs)[i].vals[left_rows[r]]
                        ELSE GatherVals(FlatCols(rhs)[j].vals, right_rows)[r]]

\* C21: with sort=False, row i of the returned frame is made of lhs row
\* left_rows[i] and rhs row right_rows[i], with nulls where the selection
\* has no match, for every i: the frame has one row per entry of the row
\* selection, in the order of the selection, in every column and index
\* level.
C21_UnsortedKeepsSelectionOrder ==
    (pc = "done" /\ ~sort)
    => /\ Len(left_rows) = Len(right_rows)
       /\ NumRows(result) = Len(left_rows)
       /\ \A p \in 1..Len(FlatCols(result)) :
            LET o == FlatCols(result)[p]
            IN  /\ Len(o.vals) = Len(left_rows)
                /\ (FromLeftRows(o) \/ FromRightRows(o) \/ FromBothRows(o))

\* An unsorted left merge whose selection came with the later lhs row first
\* and with a row that has no match.
C21_Witness ==
    /\ pc = "done" /\ ~sort /\ how = "left"
    /\ Len(left_rows) = 2
    /\ left_rows[1] > left_rows[2]
    /\ \E r \in 1..2 : right_rows[r] = NoMatch
    /\ \E r \in 1..2 : right_rows[r] # NoMatch
    /\ Len(result.cols) > Len(lhs.cols)

\* The values of the columns `keys` in row r.
KeyRow(keys, r) == [p \in 1..Len(keys) |-> keys[p].vals[r]]

\* The rows of the frame are in non-decreasing lexicographic order of the
\* columns `keys`.
OrderedBy(keys, n) ==
    \A r \in 1..(n - 1) : KeyLeq(KeyRow(keys, r), KeyRow(keys, r + 1))

\* The index levels that serve as join keys, for the assembled rows: the
\* index of the result when both index flags are set, else the levels of the
\* one side whose flag is set, as gathered by the row selection.
IndexLevelsUsedAsKeys ==
    IF left_index /\ right_index THEN assembled.index
    ELSE IF left_index THEN left_result.index
    ELSE IF right_index THEN right_result.index
    ELSE <<>>

\* The sort keys as the claim lists them, for the assembled rows.
ClaimedSortKeys ==
    IndexLevelsUsedAsKeys
    \o (IF ArgTruthy(left_on) THEN Lookup(assembled, _coerce_to_list(left_on)) ELSE <<>>)
    \o (IF ArgTruthy(right_on) THEN Lookup(assembled, _coerce_to_list(right_on)) ELSE <<>>)

\* The position in the assembled frame of every row of the result.
SortPermutation ==
    IF SortBy(assembled) # <<>>
    THEN SortedInds(SortBy(assembled), NumRows(assembled))
    ELSE RowIds(assembled)

\* C22 as stated: with sort=True and no on, the rows of the result are the
\* assembled rows in non-decreasing lexicographic order of the index levels
\* used as join keys (through left_index or right_index), then the left_on
\* columns, then the right_on columns; and every index level that serves as
\* a join key is one of the columns the sort orders by.
C22_SortedByIndexAndKeys ==
    (pc = "done" /\ sort /\ ~ArgTruthy(on))
    => /\ result.cols = GatherCols(assembled.cols, SortPermutation)
       /\ OrderedBy(GatherCols(ClaimedSortKeys, SortPermutation), NumRows(result))
       /\ \A i \in 1..Len(IndexLevelsUsedAsKeys) :
            \E k \in 1..Len(SortBy(assembled)) :
                SortBy(assembled)[k].vals = IndexLevelsUsedAsKeys[i].vals

\* The sort keys read off the result: its index levels when both index
\* flags are set, then its left_on columns, then its right_on columns.
ResultSortKeys ==
    (IF left_index /\ right_index THEN result.index ELSE <<>>)
    \o (IF ArgTruthy(left_on) THEN Lookup(result, _coerce_to_list(left_on)) ELSE <<>>)
    \o (IF ArgTruthy(right_on) THEN Lookup(result, _coerce_to_list(right_on)) ELSE <<>>)

\* C22 amended: with sort=True and no on, the rows of the result are the
\* assembled rows in non-decreasing lexicographic order of the index levels
\* of the result when both left_index and right_index are set, then the
\* left_on columns, then the right_on columns; with one index flag alone the
\* index levels are no sort key and the key columns of the other side give
\* the order.
C22_SortedByResultKeys ==
    (pc = "done" /\ sort /\ ~ArgTruthy(on))
    => /\ result.cols = GatherCols(assembled.cols, SortPermutation)
       /\ result.index = GatherCols(assembled.index, SortPermutation)
       /\ \A r \in 1..NumRows(assembled) :
            Cardinality({q \in 1..NumRows(assembled) : SortPermutation[q] = r}) = 1
       /\ OrderedBy(ResultSortKeys, NumRows(result))

\* A sorted left merge of the index of lhs with a key column of rhs: the
\* sort moved the row without a match behind the matched one, against the
\* order of the index of lhs.
C22_Witness ==
    /\ pc = "done" /\ sort /\ how = "left"
    /\ left_index /\ ~right_index /\ ArgTruthy(right_on)
    /\ result.cols # assembled.cols
    /\ \E r \in 1..(NumRows(result) - 1) :
        /\ ResultSortKeys[1].vals[r] # Null
        /\ ResultSortKeys[1].vals[r + 1] = Null

\* One index-tagged key per index level of f, in level order, followed by
\* one column key per name of the argument a, in the order given.
LevelsThenColumns(f, a) ==
    [i \in 1..(Len(f.index) + Len(_coerce_to_tuple(a))) |->
        IF i <= Len(f.index)
        THEN [name |-> f.index[i].name, index |-> TRUE]
        ELSE [name |-> _coerce_to_tuple(a)[i - Len(f.index)], index |-> FALSE]]

\* The position of the key among the columns the row selector sees.
PositionOfKey(key, f) ==
    IF key.index
    THEN CHOOSE p \in 1..Len(f.index) : f.index[p].name = key.name
    ELSE Len(f.index) + (CHOOSE p \in 1..Len(f.cols) : f.cols[p].name = key.name)

\* C23: when left_index is set together with left_on, the left key list of
\* the merge object is one index-tagged key per index level of lhs, in
\* level order, followed by the left_on columns in the order given, and the
\* same for right_index, right_on and rhs.  Key i of the left list is paired
\* with key i of the right list: the row selector is handed their positions
\* at the same place of its two key lists, and every row pair of an inner
\* merge agrees on key i of lhs and key i of rhs.
C23_IndexKeysThenColumnKeys ==
    ConstructionSucceeded
    => /\ (left_index /\ ArgTruthy(left_on)) => _keys.left = LevelsThenColumns(lhs, left_on)
       /\ (right_index /\ ArgTruthy(right_on)) => _keys.right = LevelsThenColumns(rhs, right_on)
       /\ ((left_index /\ ArgTruthy(left_on)) \/ (right_index /\ ArgTruthy(right_on)))
            => /\ Len(_keys.left) = Len(_keys.right)
               /\ selector_calls # <<>>
                    => /\ selector_calls[1].left_on =
                            [i \in 1..Len(_keys.left) |-> PositionOfKey(_keys.left[i], lhs)]
                       /\ selector_calls[1].right_on =
                            [i \in 1..Len(_keys.right) |-> PositionOfKey(_keys.right[i], rhs)]
               /\ (how = "inner" /\ Called("_joiner") /\ pc # "raised")
                    => \A n \in 1..Len(left_rows), i \in 1..Len(_keys.left) :
                          KeyGet(_keys.left[i], lhs).vals[left_rows[n]]
                              = KeyGet(_keys.right[i], rhs).vals[right_rows[n]]

\* A finished inner merge of two frames with a two-level index each, on
\* both indexes and on a column of each: three keys a side, and a row that
\* agrees on all three.
C23_Witness ==
    /\ pc = "done" /\ how = "inner"
    /\ left_index /\ ArgTruthy(left_on) /\ right_index /\ ArgTruthy(right_on)
    /\ Len(lhs.index) = 2
    /\ Len(_keys.left) = 3 /\ Len(_keys.right) = 3
    /\ _keys.left[1].name # _keys.left[2].name
    /\ NumRows(result) > 0

\* C24: for how in {inner, left, outer} and every call that passes the
\* validation, the assembly gives no two source columns the same output
\* name: the result has |cols(lhs)| + |cols(rhs)| - (number of same-named
\* join key columns) columns under pairwise distinct names, so that no
\* column is overwritten or lost, whatever the suffixes are and whatever
\* other column names the operands have.
C24_NoOutputNameCollision ==
    (Assembled /\ how \in {"inner", "left", "outer"})
    => /\ Len(assembled.cols) =
            Len(lhs.cols) + Len(rhs.cols) - Cardinality(SameNamedKeyNames)
       /\ \A i, j \in 1..Len(assembled.cols) :
            assembled.cols[i].name = assembled.cols[j].name => i = j

\* C25: for every merge that passes the validation with sort=True the sort
\* completes: every column it looks up by name (the on names, or the
\* left_on and right_on names) is in the assembled result, for every how,
\* leftsemi and leftanti included, and also when the name of a key column
\* is the name of a non-key column of the other side.  No lookup error is
\* raised once the row selector has run.
C25_SortLookupsSucceed ==
    /\ Called("_sort_result") => (pc = "done" /\ error = NoError)
    /\ (Assembled /\ sort /\ ArgTruthy(on) /\ ~IsIndex(assembled))
        => AllPresent(assembled, _coerce_to_list(on))
    /\ (Assembled /\ sort /\ ~ArgTruthy(on))
        => /\ ArgTruthy(left_on) => AllPresent(assembled, _coerce_to_list(left_on))
           /\ ArgTruthy(right_on) => AllPresent(assembled, _coerce_to_list(right_on))
    /\ error = ErrKeyError => ~Called("_joiner")

\* The names of the keys of the merge object, in the order of the left key
\* list.
KeyNames == [i \in 1..Len(_keys.left) |-> _keys.left[i].name]

\* C26: with sort=True and implicit keys (none of on, left_on, right_on,
\* left_index, right_index given, the keys being the common column names)
\* the rows of the result are in non-decreasing order of the join key
\* columns, and the result is the one the same merge gives when the key
\* names are passed as on: the assembled rows in the stable order of the key
\* columns.
C26_ImplicitKeysSorted ==
    (pc = "done" /\ sort /\ NoKeyArgs)
    => /\ AllPresent(result, KeyNames)
       /\ OrderedBy(Lookup(result, KeyNames), NumRows(result))
       /\ result.cols =
            GatherCols(assembled.cols,
                       SortedInds(Lookup(assembled, KeyNames), NumRows(assembled)))

\* One column key per name of on, in the order of on.
OnColumnKeys ==
    [i \in 1..Len(_coerce_to_tuple(on)) |->
        [name |-> _coerce_to_tuple(on)[i], index |-> FALSE]]

\* C27: whenever on is supplied and the validation passes, one key set is
\* used throughout the merge, whatever left_index and right_index are: the
\* key lists of both sides are the on columns, the row selector is handed
\* the positions of the on columns of lhs and of rhs, the assembly keeps
\* each on column once, and the sort orders by the on columns.
C27_OneKeySet ==
    (Constructed /\ ArgTruthy(on) /\ _validate_merge_params = NoError)
    => /\ error # ErrKeyCount
       /\ Called("_compute_join_keys")
            => (_keys.left = OnColumnKeys /\ _keys.right = OnColumnKeys)
       /\ selector_calls # <<>>
            => /\ selector_calls[1].left_on =
                    [i \in 1..Len(OnColumnKeys) |-> PositionOfKey(OnColumnKeys[i], lhs)]
               /\ selector_calls[1].right_on =
                    [i \in 1..Len(OnColumnKeys) |-> PositionOfKey(OnColumnKeys[i], rhs)]
       /\ (Assembled /\ ~IsIndex(assembled))
            => \A i \in 1..Len(OnColumnKeys) :
                  Cardinality({p \in 1..Len(assembled.cols) :
                      assembled.cols[p].name = OnColumnKeys[i].name}) = 1
       /\ (pc = "done" /\ sort /\ ~IsIndex(result))
            => OrderedBy(Lookup(result, _coerce_to_list(on)), NumRows(result))

\* ------------------------------------------------------------------------
\* _filter_stripes of io/orc.py, called by read_orc

\* Number of stripes of the file, and the largest number of rows of one.
MaxStripes == 3

MaxStripeRows == 2

\* Largest skip_rows and num_rows of a call.
MaxSkipRows == 4

MaxNumRows == 4

\* The files: number_of_values of stripe 0, 1, ... (position i + 1 holds the
\* value of stripe i).
StripeLayouts == [1..MaxStripes -> 1..MaxStripeRows]

StripeIds == 0..(MaxStripes - 1)

\* The values of the stripes argument: None, or a list of stripe numbers.
StripesValues == {NoValue, Value({0, 1}), Value({1, 2})}

\* The stripes whose min-max range passes a join, when joins are given.
JoinMasks == {{0, 1}, {2}}

\* read_orc: `if filters is not None or joins is not None:` the stripes are
\* selected by _filter_stripes(filters, joins, ..., stripes, skip_rows,
\* num_rows).  The statistics of the file are part of the input.
read_orc ==
    /\ orc_pc = "idle"
    /\ filters' \in BOOLEAN
    /\ joins' \in BOOLEAN
    /\ filters' \/ joins'
    /\ stripes' \in StripesValues
    /\ skip_rows' \in {NoValue} \cup {Value(n) : n \in 0..MaxSkipRows}
    /\ num_rows' \in {NoValue} \cup {Value(n) : n \in 0..MaxNumRows}
    /\ stripe_rows' \in StripeLayouts
    /\ IF filters'
       THEN file_passes' \in BOOLEAN /\ stripe_passes' \in SUBSET StripeIds
       ELSE file_passes' = TRUE /\ stripe_passes' = {}
    /\ IF joins' THEN join_passes' \in JoinMasks ELSE join_passes' = {}
    /\ orc_pc' = "file_statistics"
    /\ UNCHANGED <<loop_i, num_rows_scanned, local_skip_rows, selected_stripes_from_filters, selected_stripes>>
    /\ UNCHANGED <<merge_vars, scalar_vars>>

\* `if filters and not _apply_filters(filters, file_statistics): return []`,
\* then the initialisation of the loop over the stripes.
FilterFileStatistics ==
    /\ orc_pc = "file_statistics"
    /\ IF filters /\ ~file_passes
       THEN /\ selected_stripes' = {}
            /\ orc_pc' = "returned"
            /\ UNCHANGED <<loop_i, num_rows_scanned, local_skip_rows, selected_stripes_from_filters>>
       ELSE /\ selected_stripes_from_filters' = {}
            /\ num_rows_scanned' = 0
            /\ loop_i' = 0
            /\ local_skip_rows' = skip_rows
            /\ orc_pc' = IF filters THEN "stripes" ELSE "joins"
            /\ UNCHANGED selected_stripes
    /\ UNCHANGED <<filters, joins, stripes, skip_rows, num_rows, file_passes, stripe_rows, stripe_passes, join_passes>>
    /\ UNCHANGED <<merge_vars, scalar_vars>>

\* One iteration of `for i, stripe_statistics in enumerate(stripes_statistics)`.
FilterStripe ==
    /\ orc_pc = "stripes"
    /\ loop_i < Len(stripe_rows)
    /\ LET num_rows_before_stripe == num_rows_scanned
           scanned == num_rows_scanned + stripe_rows[loop_i + 1]
       IN  /\ num_rows_scanned' = scanned
           /\ IF stripes # NoValue /\ loop_i \notin stripes[1]
              THEN UNCHANGED <<local_skip_rows, selected_stripes_from_filters>>
              ELSE IF local_skip_rows # NoValue /\ scanned <= local_skip_rows[1]
              THEN UNCHANGED <<local_skip_rows, selected_stripes_from_filters>>
              ELSE /\ local_skip_rows' = Value(0)
                   /\ IF /\ num_rows # NoValue
                         /\ num_rows_before_stripe >= local_skip_rows'[1] + num_rows[1]
                      THEN UNCHANGED selected_stripes_from_filters
                      ELSE IF loop_i \in stripe_passes
                      THEN selected_stripes_from_filters' =
                               selected_stripes_from_filters \cup {loop_i}
                      ELSE UNCHANGED selected_stripes_from_filters
    /\ loop_i' = loop_i + 1
    /\ UNCHANGED <<orc_pc, selected_stripes>>
    /\ UNCHANGED <<filters, joins, stripes, skip_rows, num_rows, file_passes, stripe_rows, stripe_passes, join_passes>>
    /\ UNCHANGED <<merge_vars, scalar_vars>>

\* The loop over the stripes is exhausted.
StripesDone ==
    /\ orc_pc = "stripes"
    /\ loop_i = Len(stripe_rows)
    /\ orc_pc' = "joins"
    /\ UNCHANGED <<loop_i, num_rows_scanned, local_skip_rows, selected_stripes_from_filters, selected_stripes>>
    /\ UNCHANGED <<filters, joins, stripes, skip_rows, num_rows, file_passes, stripe_rows, stripe_passes, join_passes>>
    /\ UNCHANGED <<merge_vars, scalar_vars>>

\* The stripes selected by the joins (all those selected by the filters when
\* there is no join), and the return of the sorted intersection.
FilterJoins ==
    /\ orc_pc = "joins"
    /\ LET selected_stripes_from_joins ==
               IF joins
               THEN {n \in join_passes : stripes = NoValue \/ n \in stripes[1]}
               ELSE selected_stripes_from_filters
       IN  selected_stripes' =
               selected_stripes_from_filters \cap selected_stripes_from_joins
    /\ orc_pc' = "returned"
    /\ UNCHANGED <<loop_i, num_rows_scanned, local_skip_rows, selected_stripes_from_filters>>
    /\ UNCHANGED <<filters, joins, stripes, skip_rows, num_rows, file_passes, stripe_rows, stripe_passes, join_passes>>
    /\ UNCHANGED <<merge_vars, scalar_vars>>

OrcInit == Init

OrcNext ==
    \/ read_orc
    \/ FilterFileStatistics
    \/ FilterStripe
    \/ StripesDone
    \/ FilterJoins

SpecOrc == OrcInit /\ [][OrcNext]_vars

\* The rows of the file before stripe n, and up to its end.
RowsBefore(n) ==
    LET RECURSIVE Sum(_)
        Sum(k) == IF k = 0 THEN 0 ELSE stripe_rows[k] + Sum(k - 1)
    IN  Sum(n)

\* The row range of stripe n overlaps [skip_rows, skip_rows + num_rows).
OverlapsWindow(n) ==
    \E row \in RowsBefore(n)..(RowsBefore(n + 1) - 1) :
        /\ skip_rows[1] <= row
        /\ row < skip_rows[1] + num_rows[1]

\* C28: in _filter_stripes with filters, skip_rows and num_rows given, the
\* row window is [skip_rows, skip_rows + num_rows) with the skip_rows of the
\* caller for every stripe of the loop: a stripe the stripes argument
\* permits is selected if and only if its row range overlaps the window and
\* its statistics pass the filters, so that a stripe lying inside the window
\* and passing the filters is always selected.
C28_StripesOfTheWindow ==
    (/\ orc_pc = "returned"
     /\ filters /\ ~joins /\ file_passes
     /\ skip_rows # NoValue /\ num_rows # NoValue)
    => selected_stripes =
        {n \in 0..(Len(stripe_rows) - 1) :
            /\ stripes = NoValue \/ n \in stripes[1]
            /\ OverlapsWindow(n)
            /\ n \in stripe_passes}

\* ---------------------------------------------------------------------
\* cudf.Scalar: the binary and unary operations of a Scalar.
\* A scalar value is a record: kind "Scalar" (a cudf Scalar), "numpy" (a
\* NumPy scalar), "python" (a Python bool or int) or "Series" (a column
\* operand); a boolean value is 0 (False) or 1 (True) with dtype "bool".
\* The value of an invalid Scalar is never read.

ScalarDtypes == {"bool", "int8", "int64"}

ValuesOf(dtype) == IF dtype = "bool" THEN {0, 1} ELSE {-1, 0, 1, 2}

\* Scalar(value, dtype=dtype) with a value that is not None.
Scalar(value, dtype) ==
    [kind |-> "Scalar",
     value |-> IF dtype = "bool" THEN (IF value = 0 THEN 0 ELSE 1) ELSE value,
     dtype |-> dtype, valid |-> TRUE]

\* Scalar(None, dtype=dtype).
Scalar_None(dtype) == [kind |-> "Scalar", value |-> 0, dtype |-> dtype, valid |-> FALSE]

Scalars ==
    {Scalar(v, d) : <<v, d>> \in {vd \in (-1..2) \X ScalarDtypes : vd[1] \in ValuesOf(vd[2])}}
    \cup {Scalar_None(d) : d \in ScalarDtypes}

NumpyScalars ==
    {[kind |-> "numpy", value |-> vd[1], dtype |-> vd[2], valid |-> TRUE] :
        vd \in {vd \in (-1..2) \X ScalarDtypes : vd[1] \in ValuesOf(vd[2])}}

\* Python operands: True, False and ints (dtype: what NumPy infers).
PythonScalars ==
    {[kind |-> "python", value |-> vd[1], dtype |-> vd[2], valid |-> TRUE] :
        vd \in {vd \in (-1..2) \X {"bool", "int64"} : vd[1] \in ValuesOf(vd[2])}}

ASeries == [kind |-> "Series", value |-> 0, dtype |-> "int64", valid |-> TRUE]

Operands == Scalars \cup NumpyScalars \cup PythonScalars \cup {ASeries}

Comparisons == {"__eq__", "__ne__", "__lt__", "__gt__", "__le__", "__ge__"}

\* The binary and unary methods of the model.
BinaryMethods == {"__and__", "__xor__", "__eq__", "__lt__"}

UnaryMethods == {"__abs__", "__ceil__", "__floor__", "__invert__", "__neg__"}

\* The operator name each binary method hands to _scalar_binop.
PassedOp(method) == IF method = "__xor__" THEN "__or__" ELSE method

\* Bit k of x in two's complement (three bits are enough for the values).
Bit(x, k) == (((x + 8) % 8) \div (IF k = 0 THEN 1 ELSE IF k = 1 THEN 2 ELSE 4)) % 2

FromBits(b0, b1, b2) ==
    LET r == b0 + 2 * b1 + 4 * b2
    IN  IF r >= 4 THEN r - 8 ELSE r

BitAnd(x, y) ==
    FromBits(Bit(x, 0) * Bit(y, 0), Bit(x, 1) * Bit(y, 1), Bit(x, 2) * Bit(y, 2))

BitOr(x, y) ==
    LET or(a, b) == a + b - a * b
    IN  FromBits(or(Bit(x, 0), Bit(y, 0)), or(Bit(x, 1), Bit(y, 1)), or(Bit(x, 2), Bit(y, 2)))

BitXor(x, y) ==
    LET xor(a, b) == (a + b) % 2
    IN  FromBits(xor(Bit(x, 0), Bit(y, 0)), xor(Bit(x, 1), Bit(y, 1)), xor(Bit(x, 2), Bit(y, 2)))

\* to_cudf_compatible_scalar(other): a Python value becomes a NumPy scalar.
to_cudf_compatible_scalar(o) == IF o.kind = "python" THEN [o EXCEPT !.kind = "numpy"] ELSE o

\* get_allowed_combinations_for_operator(dtype_l, dtype_r, op) for the
\* bitwise operators on boolean and integer dtypes.
get_allowed_combinations_for_operator(dtype_l, dtype_r, o) ==
    IF dtype_l = dtype_r THEN dtype_l
    ELSE IF "int64" \in {dtype_l, dtype_r} THEN "int64"
    ELSE "int8"

_binop_result_dtype_or_error(slf, o, operator) ==
    IF operator \in Comparisons
    THEN "bool"
    ELSE get_allowed_combinations_for_operator(slf.dtype, o.dtype, operator)

\* getattr(self.value, op)(other) on NumPy scalars.
_dispatch_scalar_binop(slf, o, operator) ==
    CASE operator = "__and__" -> BitAnd(slf.value, o.value)
      [] operator = "__or__" -> BitOr(slf.value, o.value)
      [] operator = "__xor__" -> BitXor(slf.value, o.value)
      [] operator = "__eq__" -> IF slf.value = o.value THEN 1 ELSE 0
      [] operator = "__lt__" -> IF slf.value < o.value THEN 1 ELSE 0

\* The result dtype of a unary operation, or "TypeError".
_unaop_result_type_or_error(slf, operator) ==
    IF operator = "__neg__" /\ slf.dtype = "bool"
    THEN "TypeError"
    ELSE IF operator \in {"__ceil__", "__floor__"}
    THEN (IF slf.dtype = "int8" THEN "float32" ELSE "float64")
    ELSE slf.dtype

\* np.floor, np.ceil, and getattr(self.value, op)() on a NumPy scalar.
_dispatch_scalar_unaop(slf, operator) ==
    CASE operator \in {"__floor__", "__ceil__"} -> slf.value
      [] operator = "__abs__" -> IF slf.value < 0 THEN 0 - slf.value ELSE slf.value
      [] operator = "__neg__" -> 0 - slf.value
      [] operator = "__invert__" ->
            IF slf.dtype = "bool" THEN 1 - slf.value ELSE 0 - slf.value - 1

\* What a call returns that is not a Scalar.
BareNone == [kind |-> "None", value |-> 0, dtype |-> "none", valid |-> FALSE]

NotImplemented == [kind |-> "NotImplemented", value |-> 0, dtype |-> "none", valid |-> FALSE]

RaisedTypeError == [kind |-> "TypeError", value |-> 0, dtype |-> "none", valid |-> FALSE]

\* A binary or a unary method of a Scalar is called.
ScalarCall ==
    /\ scalar_pc = "idle"
    /\ self' \in Scalars
    /\ op' \in BinaryMethods \cup UnaryMethods
    /\ IF op' \in BinaryMethods
       THEN other_operand' \in Operands
       ELSE other_operand' = Nothing
    /\ scalar_pc' = "called"
    /\ UNCHANGED returned
    /\ UNCHANGED <<merge_vars, orc_vars>>

\* The binary methods: `return self._scalar_binop(other, <operator>)`.
_scalar_binop ==
    /\ scalar_pc = "called"
    /\ op \in BinaryMethods
    /\ LET operator == PassedOp(op)
       IN  IF other_operand.kind = "Series"
           THEN returned' = NotImplemented
           ELSE LET o == to_cudf_compatible_scalar(other_operand)
                    out_dtype == _binop_result_dtype_or_error(self, o, operator)
                    valid == self.valid /\ (o.kind = "numpy" \/ o.valid)
                IN  IF ~valid
                    THEN returned' = Scalar_None(out_dtype)
                    ELSE returned' = Scalar(_dispatch_scalar_binop(self, o, operator), out_dtype)
    /\ scalar_pc' = "returned"
    /\ UNCHANGED <<self, other_operand, op>>
    /\ UNCHANGED <<merge_vars, orc_vars>>

\* The unary methods: `return self._scalar_unaop(<operator>)`.
_scalar_unaop ==
    /\ scalar_pc = "called"
    /\ op \in UnaryMethods
    /\ LET out_dtype == _unaop_result_type_or_error(self, op)
       IN  IF out_dtype = "TypeError"
           THEN returned' = RaisedTypeError
           ELSE IF ~self.valid
           THEN returned' = BareNone
           ELSE returned' = Scalar(_dispatch_scalar_unaop(self, op), out_dtype)
    /\ scalar_pc' = "returned"
    /\ UNCHANGED <<self, other_operand, op>>
    /\ UNCHANGED <<merge_vars, orc_vars>>

ScalarInit == Init

ScalarNext ==
    \/ ScalarCall
    \/ _scalar_binop
    \/ _scalar_unaop

SpecScalar == ScalarInit /\ [][ScalarNext]_vars

\* C29: Scalar.__xor__ computes exclusive or: for valid boolean or integer
\* Scalars a and b, a ^ b is a valid Scalar whose value is a.value XOR
\* b.value, as for the NumPy scalars (True ^ True is False).
C29_XorIsExclusiveOr ==
    (/\ scalar_pc = "returned"
     /\ op = "__xor__"
     /\ self.valid
     /\ other_operand.kind = "Scalar" /\ other_operand.valid)
    => /\ returned.kind = "Scalar"
       /\ returned.valid
       /\ returned.value = BitXor(self.value, other_operand.value)

\* The operands of a returned binary call include an invalid Scalar.
NullOperand ==
    /\ op \in BinaryMethods
    /\ other_operand.kind # "Series"
    /\ ~self.valid \/ (other_operand.kind = "Scalar" /\ ~other_operand.valid)

\* C30: null propagation in the Scalar operations: a binary operation with
\* an invalid Scalar among its operands, and a unary operation (abs, neg,
\* invert, ceil, floor) on an invalid Scalar, returns an invalid Scalar of
\* the result dtype of the operation; no operation returns a bare None.
C30_NullPropagation ==
    scalar_pc = "returned"
    => /\ NullOperand
          => returned = Scalar_None(_binop_result_dtype_or_error(
                 self, to_cudf_compatible_scalar(other_operand), PassedOp(op)))
       /\ (/\ op \in UnaryMethods
           /\ ~self.valid
           /\ _unaop_result_type_or_error(self, op) # "TypeError")
          => returned = Scalar_None(_unaop_result_type_or_error(self, op))
       /\ returned.kind # "None"

====
